---- MODULE Spec2Model ----
(***************************************************************************)
(* qbittorrent-operator: the Torrent reconciliation controller and the     *)
(* qBittorrent client it drives.                                           *)
(*                                                                         *)
(* A reconciliation pass (TorrentReconciler.Reconcile) is one atomic       *)
(* action: it reads the stored Torrent object, talks to the remote         *)
(* service through the client, writes the object back and returns a        *)
(* ctrl.Result.  The responses of the remote service and of the store are  *)
(* inputs of the pass, chosen nondeterministically.                        *)
(*                                                                         *)
(* Strings that the code takes apart (magnet URIs, hashes) are sequences   *)
(* of one-character strings; strings that it only compares or concatenates *)
(* (reasons, messages, states) are TLA+ strings.  The Go nil error is "".  *)
(***************************************************************************)
EXTENDS Integers, Sequences, FiniteSets, TLC

VARIABLES
    store,      \* the API server: resource name -> stored Torrent object
    remote,     \* the qBittorrent instance: the list /torrents/info returns
    now,        \* wall clock (time.Now), in ticks
    added,      \* history: per resource, the hashes its passes added remotely
    last,       \* history: the pass that just ended (NoPass otherwise): whether
                \* its r.Get failed, the object and remote list it started
                \* from, the answers it got to its requests, the requests and
                \* store writes it made, the value it returned, the passes
                \* in a row that failed on the same request (where counted)
                \* and the request at which ctx was cancelled (0: never)
    client,     \* the qbittorrent.Client: base URL and session ID
    lastCall    \* history: the call made last on the client or on
                \* GetTorrentHash directly (NoCall otherwise)

vars == <<store, remote, now, added, last, client, lastCall>>

----------------------------------------------------------------------------
(* Bounds *)

\* the clock stops after MaxClock ticks
MaxClock == 1

\* the list the service starts with has at most MaxList records, a response
\* to Login carries at most MaxCookies cookies
MaxList == 2
MaxCookies == 2

\* the strings given to GetTorrentHash directly are made of at most MaxPieces
\* pieces for the part before the marker and for the hash, and of at most
\* MaxSuffix pieces for the part after the delimiter
MaxPieces == 2
MaxSuffix == 1
\* the passes in a row with the same failing request that are told apart
MaxStreak == 3

----------------------------------------------------------------------------
(* Constants of the controller *)

TypeAvailableTorrent == "Available"
TypeDegradedTorrent == "Degraded"
TorrentFinalizer == "torrent.qbittorrent.io/finalizer"

\* a finalizer owned by some other controller
OtherFinalizer == "example.com/other"

ConditionTrue == "True"

\* the resources the runtime may hand to Reconcile
Names == {"t1"}

----------------------------------------------------------------------------
(* Magnet URIs *)

\* "?xt=btih:A&dn=x": a hash followed by further parameters
MagnetA == <<"?", "x", "t", "=", "b", "t", "i", "h", ":", "A", "&", "d", "n", "=", "x">>
\* "?xt=btih:B": a hash that runs to the end of the string
MagnetB == <<"?", "x", "t", "=", "b", "t", "i", "h", ":", "B">>
\* "?dn=x&tr=y": no info-hash marker
MagnetBad == <<"?", "d", "n", "=", "x", "&", "t", "r", "=", "y">>

Magnets == {MagnetA, MagnetB, MagnetBad}

Marker == <<"b", "t", "i", "h", ":">>

\* strings.Index(s, sub): the first 0-based index of sub in s, or -1
RECURSIVE IndexFrom(_, _, _)
IndexFrom(s, sub, i) ==
    IF i + Len(sub) > Len(s) THEN -1
    ELSE IF SubSeq(s, i + 1, i + Len(sub)) = sub THEN i
    ELSE IndexFrom(s, sub, i + 1)

Index(s, sub) == IndexFrom(s, sub, 0)

\* GetTorrentHash that cuts one character late: the "&" stays on the hash
GetTorrentHashKeepsDelimiter(magnetURI) ==
    LET btihIndex == Index(magnetURI, Marker)
        hashStart == btihIndex + 5
        rest      == SubSeq(magnetURI, hashStart + 1, Len(magnetURI))
        hashEnd   == Index(rest, <<"&">>)
    IN  IF btihIndex = -1
            THEN [hash |-> <<>>, err |-> "'btih:' not found"]
        ELSE IF hashStart >= Len(magnetURI)
            THEN [hash |-> <<>>, err |-> "no hash after 'btih:'"]
        ELSE IF hashEnd = -1
            THEN [hash |-> rest, err |-> ""]
        ELSE [hash |-> SubSeq(magnetURI, hashStart + 1, hashStart + hashEnd + 1),
              err |-> ""]

\* GetTorrentHash without the check for a marker at the end of the string
GetTorrentHashNoEndCheck(magnetURI) ==
    LET btihIndex == Index(magnetURI, Marker)
        hashStart == btihIndex + 5
        rest      == SubSeq(magnetURI, hashStart + 1, Len(magnetURI))
        hashEnd   == Index(rest, <<"&">>)
    IN  IF btihIndex = -1
            THEN [hash |-> <<>>, err |-> "'btih:' not found"]
        ELSE IF hashEnd = -1
            THEN [hash |-> rest, err |-> ""]
        ELSE [hash |-> SubSeq(magnetURI, hashStart + 1, hashStart + hashEnd), err |-> ""]

\* GetTorrentHash(magnetURI) (hash, error)
GetTorrentHash(magnetURI) ==
    LET btihIndex == Index(magnetURI, Marker)
        hashStart == btihIndex + 5
        rest      == SubSeq(magnetURI, hashStart + 1, Len(magnetURI))
        hashEnd   == Index(rest, <<"&">>)
    IN  IF btihIndex = -1
            THEN [hash |-> <<>>, err |-> "'btih:' not found"]
        ELSE IF hashStart >= Len(magnetURI)
            THEN [hash |-> <<>>, err |-> "no hash after 'btih:'"]
        ELSE IF hashEnd = -1
            THEN [hash |-> rest, err |-> ""]
        ELSE [hash |-> SubSeq(magnetURI, hashStart + 1, hashStart + hashEnd), err |-> ""]

----------------------------------------------------------------------------
(* The Torrent object (api/v1alpha1) *)

\* TorrentStatus with every field at its zero value
ZeroStatus ==
    [ContentPath |-> "", AddedOn |-> 0, State |-> "", TotalSize |-> 0,
     Name |-> "", TimeActive |-> 0, AmountLeft |-> 0, Hash |-> <<>>,
     Conditions |-> <<>>]

\* a Torrent as the user creates it
NewTorrent(magnetURI, finalizers) ==
    [DeletionTimestamp |-> FALSE,
     Finalizers |-> finalizers,
     Spec |-> [MagnetURI |-> magnetURI],
     Status |-> ZeroStatus]

\* the observed fields of a status, without the conditions
ObservedFields(status) ==
    [ContentPath |-> status.ContentPath, AddedOn |-> status.AddedOn,
     State |-> status.State, TotalSize |-> status.TotalSize,
     Name |-> status.Name, TimeActive |-> status.TimeActive,
     AmountLeft |-> status.AmountLeft, Hash |-> status.Hash]

\* the same fields of a qbittorrent.TorrentInfo
InfoFields(info) ==
    [ContentPath |-> info.ContentPath, AddedOn |-> info.AddedOn,
     State |-> info.State, TotalSize |-> info.TotalSize,
     Name |-> info.Name, TimeActive |-> info.TimeActive,
     AmountLeft |-> info.AmountLeft, Hash |-> info.Hash]

----------------------------------------------------------------------------
(* Conditions (k8s.io/apimachinery/pkg/api/meta, as called by the controller) *)

Condition(type, status, reason, message, t) ==
    [Type |-> type, Status |-> status, Reason |-> reason, Message |-> message,
     LastTransitionTime |-> t]

\* meta.FindStatusCondition: the index of the first entry of the type, 0 if none
RECURSIVE FindFrom(_, _, _)
FindFrom(conditions, type, i) ==
    IF i > Len(conditions) THEN 0
    ELSE IF conditions[i].Type = type THEN i
    ELSE FindFrom(conditions, type, i + 1)

FindStatusCondition(conditions, type) == FindFrom(conditions, type, 1)

\* meta.SetStatusCondition: append a new type; for an existing one the
\* transition time moves only when the status changes, reason and message
\* are always taken over
SetStatusCondition(conditions, newCondition) ==
    LET i == FindStatusCondition(conditions, newCondition.Type)
    IN  IF i = 0 THEN Append(conditions, newCondition)
        ELSE [conditions EXCEPT ![i] =
                [@ EXCEPT
                    !.Status = newCondition.Status,
                    !.LastTransitionTime =
                        IF conditions[i].Status # newCondition.Status
                            THEN newCondition.LastTransitionTime
                            ELSE conditions[i].LastTransitionTime,
                    !.Reason = newCondition.Reason,
                    !.Message = newCondition.Message]]

\* meta.RemoveStatusCondition: drop every entry of the type
RemoveStatusCondition(conditions, type) ==
    SelectSeq(conditions, LAMBDA c : c.Type # type)

\* setDegradedCondition without its RemoveStatusCondition call
setDegradedConditionKeepsAvailable(torrent, reason, message, t) ==
    LET condition == Condition(TypeDegradedTorrent, ConditionTrue, reason, message, t)
    IN  [torrent EXCEPT !.Status.Conditions = SetStatusCondition(@, condition)]

\* setDegradedCondition that also forgets the state the service reported
setDegradedConditionClearsState(torrent, reason, message, t) ==
    LET condition == Condition(TypeDegradedTorrent, ConditionTrue, reason, message, t)
        set == SetStatusCondition(torrent.Status.Conditions, condition)
    IN  [torrent EXCEPT !.Status.Conditions =
                            RemoveStatusCondition(set, TypeAvailableTorrent),
                        !.Status.State = ""]

\* set the Degraded condition to True
setDegradedCondition(torrent, reason, message, t) ==
    LET condition == Condition(TypeDegradedTorrent, ConditionTrue, reason, message, t)
        set == SetStatusCondition(torrent.Status.Conditions, condition)
    IN  [torrent EXCEPT !.Status.Conditions =
            RemoveStatusCondition(set, TypeAvailableTorrent)]

\* setAvailableCondition that turns the Degraded entry to False instead of
\* removing it
setAvailableConditionFalsifies(torrent, reason, message, t) ==
    LET condition == Condition(TypeAvailableTorrent, ConditionTrue, reason, message, t)
        set == SetStatusCondition(torrent.Status.Conditions, condition)
        i == FindStatusCondition(set, TypeDegradedTorrent)
    IN  [torrent EXCEPT !.Status.Conditions =
            IF i = 0 THEN set ELSE [set EXCEPT ![i].Status = "False"]]

\* setAvailableCondition that drops the old Available entry and appends the
\* new one instead of calling SetStatusCondition
setAvailableConditionReplaces(torrent, reason, message, t) ==
    LET condition == Condition(TypeAvailableTorrent, ConditionTrue, reason, message, t)
        others == RemoveStatusCondition(torrent.Status.Conditions, TypeAvailableTorrent)
    IN  [torrent EXCEPT !.Status.Conditions =
            RemoveStatusCondition(Append(others, condition), TypeDegradedTorrent)]

\* set the Available condition to True
setAvailableCondition(torrent, reason, message, t) ==
    LET condition == Condition(TypeAvailableTorrent, ConditionTrue, reason, message, t)
        set == SetStatusCondition(torrent.Status.Conditions, condition)
    IN  [torrent EXCEPT !.Status.Conditions =
            RemoveStatusCondition(set, TypeDegradedTorrent)]

\* updateTorrentStatus that never copies the hash
updateTorrentStatusSkipsHash(torrent, qbTorrent) ==
    LET s == torrent.Status
        status == [s EXCEPT
            !.Name        = IF @ # qbTorrent.Name        THEN qbTorrent.Name        ELSE @,
            !.State       = IF @ # qbTorrent.State       THEN qbTorrent.State       ELSE @,
            !.TotalSize   = IF @ # qbTorrent.TotalSize   THEN qbTorrent.TotalSize   ELSE @,
            !.ContentPath = IF @ # qbTorrent.ContentPath THEN qbTorrent.ContentPath ELSE @,
            !.AddedOn     = IF @ # qbTorrent.AddedOn     THEN qbTorrent.AddedOn     ELSE @,
            !.TimeActive  = IF @ # qbTorrent.TimeActive  THEN qbTorrent.TimeActive  ELSE @,
            !.AmountLeft  = IF @ # qbTorrent.AmountLeft  THEN qbTorrent.AmountLeft  ELSE @]
    IN  [torrent |-> [torrent EXCEPT !.Status = status],
         updated |-> status # s]

\* updateTorrentStatus: copy every differing field, report whether any differed
updateTorrentStatus(torrent, qbTorrent) ==
    LET s == torrent.Status
        status == [s EXCEPT
            !.Hash        = IF @ # qbTorrent.Hash        THEN qbTorrent.Hash        ELSE @,
            !.Name        = IF @ # qbTorrent.Name        THEN qbTorrent.Name        ELSE @,
            !.State       = IF @ # qbTorrent.State       THEN qbTorrent.State       ELSE @,
            !.TotalSize   = IF @ # qbTorrent.TotalSize   THEN qbTorrent.TotalSize   ELSE @,
            !.ContentPath = IF @ # qbTorrent.ContentPath THEN qbTorrent.ContentPath ELSE @,
            !.AddedOn     = IF @ # qbTorrent.AddedOn     THEN qbTorrent.AddedOn     ELSE @,
            !.TimeActive  = IF @ # qbTorrent.TimeActive  THEN qbTorrent.TimeActive  ELSE @,
            !.AmountLeft  = IF @ # qbTorrent.AmountLeft  THEN qbTorrent.AmountLeft  ELSE @]
    IN  [torrent |-> [torrent EXCEPT !.Status = status],
         updated |-> status # s]

----------------------------------------------------------------------------
(* The remote service (qBittorrent Web API) *)

\* how the service answers one request
Responses == {"ok", "unauthorized", "error", "transport"}
\* /torrents/info may also answer 200 with a body that is no JSON array
ListResponses == Responses \cup {"badjson"}

\* the *http.Response (and error) httpClient.Do returns
HttpResponse(kind) ==
    [err        |-> IF kind = "transport" THEN "connection refused" ELSE "",
     StatusCode |-> CASE kind = "unauthorized" -> 401
                      [] kind = "forbidden"    -> 403
                      [] kind = "error"        -> 500
                      [] kind = "transport"    -> 0
                      [] OTHER                 -> 200,
     Status     |-> CASE kind = "unauthorized" -> "401 Unauthorized"
                      [] kind = "forbidden"    -> "403 Forbidden"
                      [] kind = "error"        -> "500 Internal Server Error"
                      [] kind = "transport"    -> ""
                      [] OTHER                 -> "200 OK",
     decodes    |-> kind # "badjson"]

\* the service carried the request out
Served(resp) == resp.err = "" /\ resp.StatusCode = 200

\* the record the service keeps for a torrent it has just been given
NewRemoteTorrent(hash, magnetURI) ==
    [AddedOn |-> 1, AmountLeft |-> 1, ContentPath |-> "/downloads",
     Hash |-> hash, MagnetURI |-> magnetURI, Name |-> "name", Size |-> 1,
     State |-> "downloading", TotalSize |-> 1, TimeActive |-> 0]

\* a torrent of the service that no Torrent resource asks for
ForeignTorrent ==
    [AddedOn |-> 1, AmountLeft |-> 0, ContentPath |-> "/downloads",
     Hash |-> <<"Z">>, MagnetURI |-> <<"b", "t", "i", "h", ":", "Z">>,
     Name |-> "foreign", Size |-> 1, State |-> "uploading", TotalSize |-> 1,
     TimeActive |-> 1]

RemoteHashes(rem) == {rem[i].Hash : i \in DOMAIN rem}

\* POST /api/v2/torrents/add: the service derives the info-hash from the link
\* and keeps one record per hash
ServerAdd(rem, magnetURI) ==
    LET h == GetTorrentHash(magnetURI).hash
    IN  IF h \in RemoteHashes(rem) THEN rem
        ELSE Append(rem, NewRemoteTorrent(h, magnetURI))

\* POST /api/v2/torrents/delete: the record of that hash goes
ServerDelete(rem, hash) == SelectSeq(rem, LAMBDA r : r.Hash # hash)

----------------------------------------------------------------------------
(* The client (internal/qbittorrent) *)

\* GetTorrentsInfo: the decoded list, or an error
GetTorrentsInfo(resp, body) ==
    IF resp.err # ""
        THEN [torrentsInfo |-> <<>>,
              err |-> "failed to get torrents info list: " \o resp.err]
    ELSE IF resp.StatusCode # 200
        THEN IF resp.StatusCode = 401
                THEN [torrentsInfo |-> <<>>, err |-> "unauthorized access to qbittorrent"]
                ELSE [torrentsInfo |-> <<>>,
                      err |-> "failed to get torrents info list. Status: " \o resp.Status]
    ELSE IF ~resp.decodes
        THEN [torrentsInfo |-> <<>>,
              err |-> "failed to parse torrents info list: invalid character"]
    ELSE [torrentsInfo |-> body, err |-> ""]

\* a scan that takes the first record whatever its hash
ScanFromAny(torrentsInfo, hash, i) ==
    IF torrentsInfo = <<>> THEN <<>> ELSE <<torrentsInfo[1]>>

\* a scan that keeps the last record of that hash
ScanFromLast(torrentsInfo, hash, i) ==
    LET found == SelectSeq(torrentsInfo, LAMBDA r : r.Hash = hash)
    IN  IF found = <<>> THEN <<>> ELSE <<found[Len(found)]>>

\* the loop of GetTorrentInfo: the first record of that hash, <<>> for nil
RECURSIVE ScanFrom(_, _, _)
ScanFrom(torrentsInfo, hash, i) ==
    IF i > Len(torrentsInfo) THEN <<>>
    ELSE IF torrentsInfo[i].Hash = hash THEN <<torrentsInfo[i]>>
    ELSE ScanFrom(torrentsInfo, hash, i + 1)

\* GetTorrentInfo that answers "not found" when the list cannot be had
GetTorrentInfoSwallowsError(resp, body, hash) ==
    LET l == GetTorrentsInfo(resp, body)
    IN  [info |-> ScanFrom(l.torrentsInfo, hash, 1), err |-> ""]

\* GetTorrentInfo(hash) (*TorrentInfo, error)
GetTorrentInfo(resp, body, hash) ==
    LET l == GetTorrentsInfo(resp, body)
    IN  IF l.err # ""
            THEN [info |-> <<>>, err |-> "failed to get torrents info list: " \o l.err]
            ELSE [info |-> ScanFrom(l.torrentsInfo, hash, 1), err |-> ""]

\* AddTorrent that sends the info-hash instead of the magnet URI
AddTorrentSendsHash(magnetURI, resp) ==
    [urls |-> <<GetTorrentHash(magnetURI).hash, GetTorrentHash(magnetURI).hash>>,
     err  |-> IF resp.err # "" THEN "failed to add torrent: " \o resp.err
              ELSE IF resp.StatusCode # 200
                  THEN IF resp.StatusCode = 401
                          THEN "unauthorized access to qbittorrent"
                          ELSE "failed to add torrent. Status: " \o resp.Status
              ELSE ""]

\* AddTorrent(magnetURI) error: the form sent and the error returned.  The
\* multipart body carries two parts named "urls", one from WriteField and one
\* from CreateFormField and Write, each holding the magnet URI.
AddTorrent(magnetURI, resp) ==
    [urls |-> <<magnetURI, magnetURI>>,
     err  |-> IF resp.err # "" THEN "failed to add torrent: " \o resp.err
              ELSE IF resp.StatusCode # 200
                  THEN IF resp.StatusCode = 401
                          THEN "unauthorized access to qbittorrent"
                          ELSE "failed to add torrent. Status: " \o resp.Status
              ELSE ""]

\* DeleteTorrent without the branch for 401
DeleteTorrentNoUnauthorized(hash, deleteFiles, resp) ==
    [hashes      |-> hash,
     deleteFiles |-> deleteFiles,
     err |-> IF resp.err # "" THEN "failed to delete torrent: " \o resp.err
             ELSE IF resp.StatusCode # 200
                 THEN "failed to delete torrent. Status: " \o resp.Status
             ELSE ""]

\* DeleteTorrent(hash, deleteFiles) error: the form sent (fields "hashes" and
\* "deleteFiles") and the error returned
DeleteTorrent(hash, deleteFiles, resp) ==
    [hashes      |-> hash,
     deleteFiles |-> deleteFiles,
     err |-> IF resp.err # "" THEN "failed to delete torrent: " \o resp.err
             ELSE IF resp.StatusCode # 200
                 THEN IF resp.StatusCode = 401
                         THEN "unauthorized access to qbittorrent"
                         ELSE "failed to delete torrent. Status: " \o resp.Status
             ELSE ""]

\* strings.TrimSuffix(s, suffix): s without one trailing suffix, if it has one
TrimSuffix(s, suffix) ==
    IF /\ Len(s) >= Len(suffix)
       /\ SubSeq(s, Len(s) - Len(suffix) + 1, Len(s)) = suffix
    THEN SubSeq(s, 1, Len(s) - Len(suffix))
    ELSE s

\* NewClient that takes the address as it is
NewClientKeepsSlash(baseURL) ==
    [baseURL    |-> baseURL,
     httpClient |-> [Timeout |-> 5],
     sessionID  |-> ""]

\* NewClient(baseURL) *Client: the timeout of the http.Client is in seconds
NewClient(baseURL) ==
    [baseURL    |-> TrimSuffix(baseURL, <<"/">>),
     httpClient |-> [Timeout |-> 5],
     sessionID  |-> ""]

\* the address the operator is started with
BaseURL == <<"q", "b", "/">>

\* an http.Cookie of a response
Cookie(name, value) == [Name |-> name, Value |-> value]

\* the loop of Login over resp.Cookies(): the value of the first cookie named
\* SID goes into sessionID, which stays as it was when there is none
RECURSIVE TakeSID(_, _, _)
TakeSID(c, cookies, i) ==
    IF i > Len(cookies) THEN c
    ELSE IF cookies[i].Name = "SID" THEN [c EXCEPT !.sessionID = cookies[i].Value]
    ELSE TakeSID(c, cookies, i + 1)

\* Login that drops the session ID when the response is not 200
LoginForgetsOnRefusal(c, resp, cookies) ==
    IF resp.err # ""
        THEN [client |-> c, err |-> "failed to login to qbittorrent: " \o resp.err]
    ELSE IF resp.StatusCode # 200
        THEN [client |-> [c EXCEPT !.sessionID = ""],
              err |-> "failed to login to qbittorrent. Status: " \o resp.Status]
    ELSE LET c1 == TakeSID(c, cookies, 1)
         IN  IF c1.sessionID = ""
             THEN [client |-> c1,
                   err |-> "failed to get session ID from qbittorrent response"]
             ELSE [client |-> c1, err |-> ""]

\* Login(username, password) error: the client afterwards and the error
Login(c, resp, cookies) ==
    IF resp.err # ""
        THEN [client |-> c, err |-> "failed to login to qbittorrent: " \o resp.err]
    ELSE IF resp.StatusCode # 200
        THEN [client |-> c,
              err |-> "failed to login to qbittorrent. Status: " \o resp.Status]
    ELSE LET c1 == TakeSID(c, cookies, 1)
         IN  IF c1.sessionID = ""
             THEN [client |-> c1,
                   err |-> "failed to get session ID from qbittorrent response"]
             ELSE [client |-> c1, err |-> ""]

\* no call has been made on the client
NoCall == [op |-> ""]

\* one request of a pass to the service, as the pass log keeps it
Call(op, arg, deleteFiles, err) ==
    [op |-> op, arg |-> arg, deleteFiles |-> deleteFiles, err |-> err]

----------------------------------------------------------------------------
(* The store (the API server behind client.Client) *)

StoreErr == "store write failed"

\* one write to the store, as the pass log keeps it: after counts the requests
\* to the service that have returned when the write is made
Write(op, obj, ok) == [op |-> op, obj |-> obj, ok |-> ok, after |-> 0]

\* the write, made when the requests of calls have returned
After(write, calls) == [write EXCEPT !.after = Len(calls)]

\* the errors of r.Get: there is no such object; the store cannot be reached
NotFoundErr == "not found"
GetErr == "get failed"

\* r.Get: the error it returns, stored being <<>> when there is no such object
Get(stored, fetchErr) ==
    IF fetchErr THEN GetErr
    ELSE IF stored = <<>> THEN NotFoundErr
    ELSE ""

\* IgnoreNotFound that hands every error on
IgnoreNotFoundKeeps(err) == err

\* client.IgnoreNotFound: nil for a not-found error, the error otherwise
IgnoreNotFound(err) == IF err = NotFoundErr THEN "" ELSE err

\* r.Update: metadata and spec are written, the status subresource is not; an
\* object under deletion goes when its last finalizer does.  stored is <<>>
\* or <<object>>; on success the caller's copy becomes the stored object.
Update(stored, obj, ok) ==
    IF ~ok THEN [stored |-> stored, obj |-> obj, err |-> StoreErr,
                 write |-> Write("Update", obj, FALSE)]
    ELSE LET new == [stored[1] EXCEPT !.Finalizers = obj.Finalizers,
                                      !.Spec = obj.Spec]
         IN  [stored |-> IF new.DeletionTimestamp /\ new.Finalizers = {}
                            THEN <<>> ELSE <<new>>,
              obj    |-> new,
              err    |-> "",
              write  |-> Write("Update", obj, TRUE)]

\* r.Status().Update: only the status is written
StatusUpdate(stored, obj, ok) ==
    IF ~ok THEN [stored |-> stored, obj |-> obj, err |-> StoreErr,
                 write |-> Write("StatusUpdate", obj, FALSE)]
    ELSE LET new == [stored[1] EXCEPT !.Status = obj.Status]
         IN  [stored |-> <<new>>, obj |-> new, err |-> "",
              write |-> Write("StatusUpdate", obj, TRUE)]

----------------------------------------------------------------------------
(* The reconciliation pass *)

\* ctrl.Result and error: RequeueAfter in seconds, 0 for none
Result(requeueAfter, err) == [RequeueAfter |-> requeueAfter, err |-> err]

\* what a pass leaves behind: the stored object (<<>> when it is gone), the
\* remote list, the requests made, the store writes made, the value returned
Outcome(stored, rem, calls, writes, result) ==
    [stored |-> stored, remote |-> rem, calls |-> calls, writes |-> writes,
     result |-> result]

\* the inputs of a pass: whether r.Get fails, the answers to the first and
\* second request, whether the first and second store write succeed
Env(fetchErr, r1, r2, w1, w2) ==
    [fetchErr |-> fetchErr, r1 |-> r1, r2 |-> r2, w1 |-> w1, w2 |-> w2]

\* ContainsFinalizer that always answers yes: step 3 is skipped
ContainsFinalizerAlways(torrent, f) == TRUE

ContainsFinalizer(torrent, f) == f \in torrent.Finalizers
AddFinalizer(torrent, f) == [torrent EXCEPT !.Finalizers = @ \cup {f}]

\* RemoveFinalizer that leaves the list alone
RemoveFinalizerKeeps(torrent, f) == torrent

RemoveFinalizer(torrent, f) == [torrent EXCEPT !.Finalizers = @ \ {f}]

\* handleDeletionFailed without its return: the pass falls through to the
\* removal of the finalizer
handleDeletionFailedFallsThrough(torrent, rem, t, env, calls, err) ==
    LET degraded == setDegradedCondition(torrent, "FailedToDeleteTorrent", err, t)
        w == StatusUpdate(<<torrent>>, degraded, env.w1)
        u == Update(w.stored, RemoveFinalizer(w.obj, TorrentFinalizer), TRUE)
    IN  Outcome(u.stored, rem, calls, <<After(w.write, calls), After(u.write, calls)>>, Result(0, ""))

\* handleDeletionFailed without its status write
handleDeletionFailedNoWrite(torrent, rem, t, env, calls, err) ==
    Outcome(<<torrent>>, rem, calls, <<>>, Result(10, ""))

\* handleDeletionFailed that doubles the delay when the stored status already
\* records a failed DeleteTorrent
handleDeletionFailedBacksOff(torrent, rem, t, env, calls, err) ==
    LET degraded == setDegradedCondition(torrent, "FailedToDeleteTorrent", err, t)
        w == StatusUpdate(<<torrent>>, degraded, env.w1)
        again == \E i \in DOMAIN torrent.Status.Conditions :
                    torrent.Status.Conditions[i].Reason = "FailedToDeleteTorrent"
    IN  Outcome(w.stored, rem, calls, <<After(w.write, calls)>>,
                Result(IF again THEN 20 ELSE 10, ""))

\* handleDeletion, DeleteTorrent having failed: record it and retry later
handleDeletionFailed(torrent, rem, t, env, calls, err) ==
    LET degraded == setDegradedCondition(torrent, "FailedToDeleteTorrent", err, t)
        w == StatusUpdate(<<torrent>>, degraded, env.w1)
    IN  Outcome(w.stored, rem, calls, <<After(w.write, calls)>>, Result(10, ""))

\* handleDeletion
handleDeletion(torrent, rem, t, env) ==
    LET resp == HttpResponse(env.r1)
        del  == DeleteTorrent(torrent.Status.Hash, TRUE, resp)
        call == Call("DeleteTorrent", del.hashes, del.deleteFiles, del.err)
        tried == torrent.Status.Hash # <<>>
        rem1 == IF tried /\ Served(resp) THEN ServerDelete(rem, del.hashes) ELSE rem
        calls == IF tried THEN <<call>> ELSE <<>>
    IN  IF tried /\ del.err # ""
        THEN handleDeletionFailed(torrent, rem1, t, env, calls, del.err)
        ELSE LET w == Update(<<torrent>>, RemoveFinalizer(torrent, TorrentFinalizer),
                             env.w1)
             IN  IF w.err # ""
                 THEN Outcome(w.stored, rem1, calls, <<After(w.write, calls)>>, Result(0, w.err))
                 ELSE Outcome(w.stored, rem1, calls, <<After(w.write, calls)>>, Result(0, ""))

\* reconcile, from the torrent being found in the list (steps 4.3 to 4.5)
reconcileFound(torrent, rem, t, env, calls, torrentInfo) ==
    LET u == updateTorrentStatus(torrent, torrentInfo)
        w1 == StatusUpdate(<<torrent>>, u.torrent, env.w1)
        \* the copy the pass goes on with, and what is stored by then
        cur == IF u.updated THEN w1.obj ELSE u.torrent
        stored == IF u.updated THEN w1.stored ELSE <<torrent>>
        first == IF u.updated THEN <<After(w1.write, calls)>> ELSE <<>>
        available == setAvailableCondition(cur, "TorrentActive",
                                           "Torrent is active on qBittorrent", t)
        w2 == StatusUpdate(stored, available, IF u.updated THEN env.w2 ELSE env.w1)
    IN  IF u.updated /\ w1.err # ""
        THEN Outcome(w1.stored, rem, calls, first, Result(0, w1.err))
        ELSE Outcome(w2.stored, rem, calls, first \o <<After(w2.write, calls)>>, Result(30, ""))

\* reconcileAdd that asks for no further pass once the torrent is added
reconcileAddNoRequeue(torrent, rem, t, env, calls) ==
    LET resp == HttpResponse(env.r2)
        add  == AddTorrent(torrent.Spec.MagnetURI, resp)
        call == Call("AddTorrent", add.urls, FALSE, add.err)
        rem1 == IF Served(resp)
                THEN ServerAdd(ServerAdd(rem, add.urls[1]), add.urls[2])
                ELSE rem
    IN  IF add.err # ""
        THEN LET degraded == setDegradedCondition(torrent, "FailedToAddTorrent",
                                                   add.err, t)
                 w == StatusUpdate(<<torrent>>, degraded, env.w1)
             IN  Outcome(w.stored, rem1, calls \o <<call>>,
                         <<After(w.write, calls \o <<call>>)>>, Result(10, ""))
        ELSE LET available == setAvailableCondition(torrent, "TorrentAdded",
                                                    "Torrent added to qBittorrent", t)
                 w == StatusUpdate(<<torrent>>, available, env.w1)
             IN  Outcome(w.stored, rem1, calls \o <<call>>,
                         <<After(w.write, calls \o <<call>>)>>, Result(0, ""))

\* reconcile, from the torrent not being in the list (steps 4.2 and 4.3)
reconcileAdd(torrent, rem, t, env, calls) ==
    LET resp == HttpResponse(env.r2)
        add  == AddTorrent(torrent.Spec.MagnetURI, resp)
        call == Call("AddTorrent", add.urls, FALSE, add.err)
        rem1 == IF Served(resp)
                THEN ServerAdd(ServerAdd(rem, add.urls[1]), add.urls[2])
                ELSE rem
    IN  IF add.err # ""
        THEN LET degraded == setDegradedCondition(torrent, "FailedToAddTorrent",
                                                   add.err, t)
                 w == StatusUpdate(<<torrent>>, degraded, env.w1)
             IN  Outcome(w.stored, rem1, calls \o <<call>>, <<After(w.write, calls \o <<call>>)>>,
                         Result(10, ""))
        ELSE LET available == setAvailableCondition(torrent, "TorrentAdded",
                                                    "Torrent added to qBittorrent", t)
                 w == StatusUpdate(<<torrent>>, available, env.w1)
             IN  Outcome(w.stored, rem1, calls \o <<call>>, <<After(w.write, calls \o <<call>>)>>,
                         Result(5, ""))

\* reconcile that records the error of GetTorrentHash in the status before
\* it returns it
reconcileRecordsHashError(torrent, rem, t, env) ==
    LET h == GetTorrentHash(torrent.Spec.MagnetURI)
        resp == HttpResponse(env.r1)
        get == GetTorrentInfo(resp, rem, h.hash)
        calls == <<Call("GetTorrentsInfo", <<>>, FALSE, get.err)>>
    IN  IF h.err # ""
        THEN LET degraded == setDegradedCondition(torrent, "InvalidMagnetURI",
                                                   h.err, t)
                 w == StatusUpdate(<<torrent>>, degraded, env.w1)
             IN  Outcome(w.stored, rem, <<>>, <<After(w.write, <<>>)>>,
                         Result(0, h.err))
        ELSE IF get.err # ""
        THEN LET degraded == setDegradedCondition(torrent, "FailedToGetTorrentInfo",
                                                   get.err, t)
                 w == StatusUpdate(<<torrent>>, degraded, env.w1)
             IN  Outcome(w.stored, rem, calls, <<After(w.write, calls)>>,
                         Result(10, ""))
        ELSE IF get.info = <<>>
        THEN reconcileAdd(torrent, rem, t, env, calls)
        ELSE reconcileFound(torrent, rem, t, env, calls, get.info[1])

\* reconcile that does not look at the error of GetTorrentHash and goes on
\* with the empty hash
reconcileIgnoresHashError(torrent, rem, t, env) ==
    LET h == GetTorrentHash(torrent.Spec.MagnetURI)
        resp == HttpResponse(env.r1)
        get == GetTorrentInfo(resp, rem, h.hash)
        calls == <<Call("GetTorrentsInfo", <<>>, FALSE, get.err)>>
    IN  IF get.err # ""
        THEN LET degraded == setDegradedCondition(torrent, "FailedToGetTorrentInfo",
                                                   get.err, t)
                 w == StatusUpdate(<<torrent>>, degraded, env.w1)
             IN  Outcome(w.stored, rem, calls, <<After(w.write, calls)>>, Result(10, ""))
        ELSE IF get.info = <<>>
        THEN reconcileAdd(torrent, rem, t, env, calls)
        ELSE reconcileFound(torrent, rem, t, env, calls, get.info[1])

\* reconcile
reconcile(torrent, rem, t, env) ==
    LET h == GetTorrentHash(torrent.Spec.MagnetURI)
        resp == HttpResponse(env.r1)
        get == GetTorrentInfo(resp, rem, h.hash)
        calls == <<Call("GetTorrentsInfo", <<>>, FALSE, get.err)>>
    IN  IF h.err # ""
        THEN Outcome(<<torrent>>, rem, <<>>, <<>>, Result(0, h.err))
        ELSE IF get.err # ""
        THEN LET degraded == setDegradedCondition(torrent, "FailedToGetTorrentInfo",
                                                   get.err, t)
                 w == StatusUpdate(<<torrent>>, degraded, env.w1)
             IN  Outcome(w.stored, rem, calls, <<After(w.write, calls)>>, Result(10, ""))
        ELSE IF get.info = <<>>
        THEN reconcileAdd(torrent, rem, t, env, calls)
        ELSE reconcileFound(torrent, rem, t, env, calls, get.info[1])

\* Reconcile without the return of step 3: the pass that adds the finalizer
\* goes on to reconcile
ReconcileFallsThrough(stored, rem, t, env) ==
    IF Get(stored, env.fetchErr) # ""
    THEN Outcome(stored, rem, <<>>, <<>>,
                 Result(0, IgnoreNotFound(Get(stored, env.fetchErr))))
    ELSE LET torrent == stored[1]
         IN  IF torrent.DeletionTimestamp
             THEN handleDeletion(torrent, rem, t, env)
             ELSE IF TorrentFinalizer \notin torrent.Finalizers
             THEN LET w == Update(stored, AddFinalizer(torrent, TorrentFinalizer), TRUE)
                      o == reconcile(w.obj, rem, t, env)
                  IN  Outcome(o.stored, o.remote, o.calls, <<After(w.write, <<>>)>> \o o.writes,
                              o.result)
             ELSE reconcile(torrent, rem, t, env)

\* Reconcile with steps 2 and 3 the other way round: the finalizer is added
\* before the deletion marker is looked at
ReconcileFinalizerFirst(stored, rem, t, env) ==
    IF Get(stored, env.fetchErr) # ""
    THEN Outcome(stored, rem, <<>>, <<>>,
                 Result(0, IgnoreNotFound(Get(stored, env.fetchErr))))
    ELSE LET torrent == stored[1]
         IN  IF ~ContainsFinalizer(torrent, TorrentFinalizer)
             THEN LET w == Update(stored, AddFinalizer(torrent, TorrentFinalizer),
                                  env.w1)
                  IN  IF w.err # ""
                      THEN Outcome(w.stored, rem, <<>>, <<After(w.write, <<>>)>>,
                                   Result(0, w.err))
                      ELSE Outcome(w.stored, rem, <<>>, <<After(w.write, <<>>)>>,
                                   Result(1, ""))
             ELSE IF torrent.DeletionTimestamp
             THEN handleDeletion(torrent, rem, t, env)
             ELSE reconcile(torrent, rem, t, env)

\* Reconcile: stored is what r.Get finds, <<>> when there is no such object
Reconcile(stored, rem, t, env) ==
    IF Get(stored, env.fetchErr) # ""
    THEN Outcome(stored, rem, <<>>, <<>>,
                 Result(0, IgnoreNotFound(Get(stored, env.fetchErr))))
    ELSE LET torrent == stored[1]
         IN  IF torrent.DeletionTimestamp
             THEN handleDeletion(torrent, rem, t, env)
             ELSE IF ~ContainsFinalizer(torrent, TorrentFinalizer)
             THEN LET w == Update(stored, AddFinalizer(torrent, TorrentFinalizer),
                                  env.w1)
                  IN  IF w.err # ""
                      THEN Outcome(w.stored, rem, <<>>, <<After(w.write, <<>>)>>, Result(0, w.err))
                      ELSE Outcome(w.stored, rem, <<>>, <<After(w.write, <<>>)>>, Result(1, ""))
             ELSE reconcile(torrent, rem, t, env)

----------------------------------------------------------------------------
(* The state machine *)

\* r.Get: the stored object of that name, <<>> when there is none
Fetch(n) == IF n \in DOMAIN store THEN <<store[n]>> ELSE <<>>

\* the store with the object of name n replaced by stored (<<>>: removed)
Put(n, stored) ==
    IF stored = <<>>
    THEN [m \in DOMAIN store \ {n} |-> store[m]]
    ELSE [m \in DOMAIN store \cup {n} |-> IF m = n THEN stored[1] ELSE store[m]]

NoPass ==
    [ran |-> FALSE, name |-> "", fetchErr |-> FALSE, fetched |-> <<>>,
     remoteBefore |-> <<>>,
     answers |-> <<>>, calls |-> <<>>, writes |-> <<>>, result |-> Result(0, ""),
     streak |-> 0, cancelAt |-> 0]

Init ==
    /\ \E m \in Magnets, f \in SUBSET {OtherFinalizer} :
          store = [n \in {"t1"} |-> NewTorrent(m, f)]
    /\ remote = <<ForeignTorrent, NewRemoteTorrent(<<"B">>, MagnetB)>>
    /\ now = 0
    /\ added = [n \in Names |-> {}]
    /\ last = NoPass
    /\ client = NewClient(BaseURL)
    /\ lastCall = NoCall

\* the last request of the pass failed
Failed(calls) == calls # <<>> /\ calls[Len(calls)].err # ""

\* how many passes in a row on n, the one that made calls included, have
\* ended in a failure of the same request; MaxStreak stands for that many or
\* more
Streak(n, calls) ==
    IF ~Failed(calls) THEN 0
    ELSE IF /\ last.ran /\ last.name = n /\ last.streak >= 1
            /\ last.calls[Len(last.calls)].op = calls[Len(calls)].op
    THEN IF last.streak < MaxStreak THEN last.streak + 1 ELSE MaxStreak
    ELSE 1

\* a pass that logs in again when the service answers 401 to its first
\* request
RunRenews(n, env) ==
    \E out \in {Reconcile(Fetch(n), remote, now, env)} :
        /\ store' = Put(n, out.stored)
        /\ remote' = out.remote
        /\ added' = [added EXCEPT ![n] = @ \cup (RemoteHashes(out.remote)
                                                    \ RemoteHashes(remote))]
        /\ last' = [ran |-> TRUE, name |-> n, fetchErr |-> env.fetchErr,
                    fetched |-> IF env.fetchErr THEN <<>> ELSE Fetch(n),
                    remoteBefore |-> remote,
                    answers |-> SubSeq(<<env.r1, env.r2>>, 1, Len(out.calls)),
                    calls |-> out.calls, writes |-> out.writes,
                    result |-> out.result,
                    streak |-> 0, cancelAt |-> 0]
        /\ client' = IF out.calls # <<>> /\ env.r1 = "unauthorized"
                     THEN [client EXCEPT !.sessionID = "renewed"]
                     ELSE client
        /\ UNCHANGED <<now, lastCall>>

\* a pass that remembers the pass before it: it doubles the delay it returns
\* when that pass failed on a request as well
RunRemembers(n, env) ==
    \E out \in {Reconcile(Fetch(n), remote, now, env)} :
        /\ store' = Put(n, out.stored)
        /\ remote' = out.remote
        /\ added' = [added EXCEPT ![n] = @ \cup (RemoteHashes(out.remote)
                                                    \ RemoteHashes(remote))]
        /\ last' = [ran |-> TRUE, name |-> n, fetchErr |-> env.fetchErr,
                    fetched |-> IF env.fetchErr THEN <<>> ELSE Fetch(n),
                    remoteBefore |-> remote,
                    answers |-> SubSeq(<<env.r1, env.r2>>, 1, Len(out.calls)),
                    calls |-> out.calls, writes |-> out.writes,
                    result |-> IF /\ last.ran /\ Failed(last.calls)
                                  /\ Failed(out.calls)
                               THEN Result(2 * out.result.RequeueAfter,
                                           out.result.err)
                               ELSE out.result,
                    streak |-> 0, cancelAt |-> 0]
        /\ UNCHANGED <<now, client, lastCall>>

\* the runtime invokes Reconcile for n; the pass runs to its end under env.
\* The runtime cancels ctx when the pass is at its k-th request to the
\* service, k = 0 for never; streak is what the history keeps as the count of
\* failures in a row.
RunWith(n, env, k, streak) ==
    \E out \in {Reconcile(Fetch(n), remote, now, env)} :
        /\ store' = Put(n, out.stored)
        /\ remote' = out.remote
        /\ added' = [added EXCEPT ![n] = @ \cup (RemoteHashes(out.remote)
                                                    \ RemoteHashes(remote))]
        /\ last' = [ran |-> TRUE, name |-> n, fetchErr |-> env.fetchErr,
                    fetched |-> IF env.fetchErr THEN <<>> ELSE Fetch(n),
                    remoteBefore |-> remote,
                    answers |-> SubSeq(<<env.r1, env.r2>>, 1, Len(out.calls)),
                    calls |-> out.calls, writes |-> out.writes,
                    result |-> out.result,
                    streak |-> streak, cancelAt |-> k]
        /\ UNCHANGED <<now, client, lastCall>>

\* the pass on n under env, ctx not being cancelled
Run(n, env) == RunWith(n, env, 0, 0)

\* the answers the service may give to the k-th request of the pass on n that
\* has got the answers of env so far: none to draw when the pass makes no
\* such request
Answers(n, env, k) ==
    LET calls == Reconcile(Fetch(n), remote, now, env).calls
    IN  IF Len(calls) < k THEN {"ok"}
        ELSE IF calls[k].op = "GetTorrentsInfo" THEN ListResponses
        ELSE Responses

\* likewise the outcomes of the k-th store write
WriteOutcomes(n, env, k) ==
    IF Len(Reconcile(Fetch(n), remote, now, env).writes) < k THEN {TRUE}
    ELSE BOOLEAN

\* one reconciliation pass on n, under every input its path consumes
Pass(n) ==
    \E fetchErr \in BOOLEAN :
    \E r1 \in Answers(n, Env(fetchErr, "ok", "ok", TRUE, TRUE), 1) :
    \E r2 \in Answers(n, Env(fetchErr, r1, "ok", TRUE, TRUE), 2) :
    \E w1 \in WriteOutcomes(n, Env(fetchErr, r1, r2, TRUE, TRUE), 1) :
    \E w2 \in WriteOutcomes(n, Env(fetchErr, r1, r2, w1, TRUE), 2) :
        Run(n, Env(fetchErr, r1, r2, w1, w2))

\* time passes
Tick ==
    /\ now < MaxClock
    /\ now' = now + 1
    /\ last' = NoPass
    /\ UNCHANGED <<store, remote, added, client, lastCall>>

\* the user deletes the resource: the API server removes it at once when it
\* has no finalizer, and marks it for deletion otherwise
UserDelete(n) ==
    /\ n \in DOMAIN store
    /\ ~store[n].DeletionTimestamp
    /\ store' = IF store[n].Finalizers = {}
                THEN Put(n, <<>>)
                ELSE Put(n, <<[store[n] EXCEPT !.DeletionTimestamp = TRUE]>>)
    /\ last' = NoPass
    /\ UNCHANGED <<remote, now, added, client, lastCall>>

\* the owner of the other finalizer releases a resource under deletion
OtherFinalizerDone(n) ==
    /\ n \in DOMAIN store
    /\ store[n].DeletionTimestamp
    /\ OtherFinalizer \in store[n].Finalizers
    /\ store' = IF store[n].Finalizers = {OtherFinalizer}
                THEN Put(n, <<>>)
                ELSE Put(n, <<RemoveFinalizer(store[n], OtherFinalizer)>>)
    /\ last' = NoPass
    /\ UNCHANGED <<remote, now, added, client, lastCall>>

\* the service finishes downloading the i-th torrent and seeds it
RemoteProgress(i) ==
    /\ i \in DOMAIN remote
    /\ remote[i].State = "downloading"
    /\ remote' = [remote EXCEPT ![i] = [@ EXCEPT !.State = "uploading",
                                                 !.AmountLeft = 0,
                                                 !.TimeActive = 1]]
    /\ last' = NoPass
    /\ UNCHANGED <<store, now, added, client, lastCall>>

Next ==
    \/ \E n \in Names : Pass(n)
    \/ Tick
    \/ \E n \in Names : UserDelete(n)
    \/ \E n \in Names : OtherFinalizerDone(n)
    \/ \E i \in DOMAIN remote : RemoteProgress(i)

Spec == Init /\ [][Next]_vars

\* a pass on n in which r.Get, every request to the service and every store
\* write succeed
ReliablePass(n) == Run(n, Env(FALSE, "ok", "ok", TRUE, TRUE))

\* ENABLED <<ReliablePass(n)>>_vars as a state predicate: the pass is
\* deterministic, so it is enabled when its outcome differs from the state
ReliablePassEnabled(n) ==
    LET env == Env(FALSE, "ok", "ok", TRUE, TRUE)
        out == Reconcile(Fetch(n), remote, now, env)
    IN  \/ Put(n, out.stored) # store
        \/ out.remote # remote
        \/ last # [ran |-> TRUE, name |-> n, fetchErr |-> FALSE,
                    fetched |-> Fetch(n), remoteBefore |-> remote,
                    answers |-> SubSeq(<<"ok", "ok">>, 1, Len(out.calls)),
                    calls |-> out.calls, writes |-> out.writes,
                    result |-> out.result, streak |-> 0, cancelAt |-> 0]

\* the runtime invokes Reconcile again after every requeue delay and after
\* every error, and the service and the store do not fail forever: a pass in
\* which everything succeeds keeps coming.  This is weak fairness of
\* ReliablePass(n), written out by its definition with ReliablePassEnabled(n)
\* for the enabling condition.
FairSpec ==
    Spec /\ \A n \in Names :
                \/ []<>(~ReliablePassEnabled(n))
                \/ []<><<ReliablePass(n)>>_vars

----------------------------------------------------------------------------
(* Passes that fail again and again, and passes that are cancelled: the      *)
(* history counts the failures in a row, and ctx may be cancelled during a  *)
(* pass.                                                                    *)

\* the pass on n under env, counted
CountedRun(n, env) ==
    RunWith(n, env, 0, Streak(n, Reconcile(Fetch(n), remote, now, env).calls))

\* one pass on n, under every input its path consumes
CountedPass(n) ==
    \E fetchErr \in BOOLEAN :
    \E r1 \in Answers(n, Env(fetchErr, "ok", "ok", TRUE, TRUE), 1) :
    \E r2 \in Answers(n, Env(fetchErr, r1, "ok", TRUE, TRUE), 2) :
    \E w1 \in WriteOutcomes(n, Env(fetchErr, r1, r2, TRUE, TRUE), 1) :
    \E w2 \in WriteOutcomes(n, Env(fetchErr, r1, r2, w1, TRUE), 2) :
        CountedRun(n, Env(fetchErr, r1, r2, w1, w2))

\* one pass on n whose ctx is cancelled at its k-th request.  The requests
\* are built with http.NewRequest, without ctx, and are answered as ever; the
\* store writes are made with ctx, all of them after the first request, and
\* fail.
CancelledPass(n) ==
    \E r1 \in Answers(n, Env(FALSE, "ok", "ok", FALSE, FALSE), 1) :
    \E r2 \in Answers(n, Env(FALSE, r1, "ok", FALSE, FALSE), 2) :
    \E k \in 1..Len(Reconcile(Fetch(n), remote, now,
                              Env(FALSE, r1, r2, FALSE, FALSE)).calls) :
        RunWith(n, Env(FALSE, r1, r2, FALSE, FALSE), k, 0)

RetryNext ==
    \/ \E n \in Names : CountedPass(n)
    \/ \E n \in Names : CancelledPass(n)
    \/ \E n \in Names : UserDelete(n)

RetrySpec == Init /\ [][RetryNext]_vars

----------------------------------------------------------------------------
(* GetTorrentHash on its own: one call per behaviour, on a string put        *)
(* together from a part before the marker, a hash and a part after the      *)
(* delimiter.                                                               *)

\* what the strings are made of: a letter, the delimiter, the marker, and the
\* beginning of a marker
Pieces == {<<"A">>, <<"&">>, Marker, <<"b", "t">>}

\* the strings of at most k pieces
RECURSIVE Strings(_)
Strings(k) ==
    IF k = 0 THEN {<<>>}
    ELSE Strings(k - 1) \cup {s \o p : s \in Strings(k - 1), p \in Pieces}

\* how the argument is put together: prefix "btih:" H "&" suffix; prefix
\* "btih:" H; or the three parts with nothing in between
Forms == {"delimited", "open", "plain"}

MagnetOf(form, prefix, H, suffix) ==
    CASE form = "delimited" -> prefix \o Marker \o H \o <<"&">> \o suffix
      [] form = "open"      -> prefix \o Marker \o H
      [] OTHER              -> prefix \o H \o suffix

\* a call of GetTorrentHash that is still to be made
HashCall(form, prefix, H, suffix) ==
    [op |-> "GetTorrentHash", form |-> form, prefix |-> prefix, H |-> H,
     suffix |-> suffix, magnetURI |-> MagnetOf(form, prefix, H, suffix),
     returned |-> FALSE, out |-> [hash |-> <<>>, err |-> ""],
     again |-> [hash |-> <<>>, err |-> ""]]

HashInit ==
    /\ store = [n \in {} |-> NewTorrent(<<>>, {})]
    /\ remote = <<>>
    /\ now = 0
    /\ added = [n \in Names |-> {}]
    /\ last = NoPass
    /\ client = NewClient(BaseURL)
    /\ \E form \in Forms, prefix \in Strings(MaxPieces), H \in Strings(MaxPieces),
          suffix \in Strings(MaxSuffix) :
          /\ form = "open" => suffix = <<>>
          /\ lastCall = HashCall(form, prefix, H, suffix)

\* the call is made, and made once more on the same argument
Extract ==
    /\ lastCall.op = "GetTorrentHash"
    /\ ~lastCall.returned
    /\ lastCall' = [lastCall EXCEPT !.returned = TRUE,
                                    !.out = GetTorrentHash(lastCall.magnetURI),
                                    !.again = GetTorrentHash(lastCall.magnetURI)]
    /\ UNCHANGED <<store, remote, now, added, last, client>>

HashNext == Extract

HashSpec == HashInit /\ [][HashNext]_vars

----------------------------------------------------------------------------
(* The client on its own: Login and the authenticated calls, in any order,  *)
(* against a service that answers as it likes.                              *)

\* the addresses a client may be made for
BaseURLs == {<<>>, <<"/">>, <<"q", "b">>, <<"q", "b", "/">>, <<"q", "b", "/", "/">>}

\* the call that made the client
NewClientCall(baseURL) == [op |-> "NewClient", baseURL |-> baseURL]

\* what the service may answer to a call of the client
ClientResponses == Responses \cup {"forbidden"}

\* the cookies a response may carry
Cookies ==
    {Cookie("SID", "s1"), Cookie("SID", "s2"), Cookie("SID", ""),
     Cookie("lang", "en")}

\* the sequences of at most k members of S
RECURSIVE SeqsUpTo(_, _)
SeqsUpTo(S, k) ==
    IF k = 0 THEN {<<>>}
    ELSE SeqsUpTo(S, k - 1) \cup {Append(q, x) : q \in SeqsUpTo(S, k - 1), x \in S}

\* the records the service may list at the start: two of one hash, and one
\* whose hash differs from it in case only
Listed ==
    {[NewRemoteTorrent(<<"A">>, MagnetA) EXCEPT !.Name = "first"],
     [NewRemoteTorrent(<<"A">>, MagnetA) EXCEPT !.Name = "second"],
     [NewRemoteTorrent(<<"a">>, MagnetA) EXCEPT !.Name = "lower"]}

\* the hashes asked for
HashArgs == {<<"A">>, <<"a">>, <<"B">>}

ClientInit ==
    /\ store = [n \in {} |-> NewTorrent(<<>>, {})]
    /\ remote \in SeqsUpTo(Listed, MaxList)
    /\ now = 0
    /\ added = [n \in Names |-> {}]
    /\ last = NoPass
    /\ \E baseURL \in BaseURLs :
          /\ client = NewClient(baseURL)
          /\ lastCall = NewClientCall(baseURL)

\* the cookies to draw for a response of that kind: Login reads the cookies
\* of a 200 response only
CookiesRead(kind) ==
    IF Served(HttpResponse(kind)) THEN SeqsUpTo(Cookies, MaxCookies) ELSE {<<>>}

\* c.Login
LoginCall ==
    \E kind \in ClientResponses :
    \E cookies \in CookiesRead(kind) :
        LET r == Login(client, HttpResponse(kind), cookies)
        IN  /\ client' = r.client
            /\ lastCall' = [op |-> "Login", before |-> client, kind |-> kind,
                            cookies |-> cookies, err |-> r.err]
            /\ UNCHANGED <<store, remote, now, added, last>>

\* c.GetTorrentsInfo
GetTorrentsInfoCall ==
    \E kind \in ClientResponses \cup {"badjson"} :
        LET r == GetTorrentsInfo(HttpResponse(kind), remote)
        IN  /\ lastCall' = [op |-> "GetTorrentsInfo", before |-> client,
                            kind |-> kind, SID |-> client.sessionID,
                            data |-> r.torrentsInfo, err |-> r.err]
            /\ UNCHANGED <<store, remote, now, added, last, client>>

\* c.GetTorrentInfo
GetTorrentInfoCall ==
    \E kind \in ClientResponses \cup {"badjson"}, hash \in HashArgs :
        LET r == GetTorrentInfo(HttpResponse(kind), remote, hash)
        IN  /\ lastCall' = [op |-> "GetTorrentInfo", before |-> client,
                            kind |-> kind, SID |-> client.sessionID,
                            hash |-> hash, listed |-> remote,
                            data |-> r.info, err |-> r.err]
            /\ UNCHANGED <<store, remote, now, added, last, client>>

\* c.AddTorrent
AddTorrentCall ==
    \E kind \in ClientResponses, magnetURI \in {MagnetA, MagnetB} :
        LET resp == HttpResponse(kind)
            r == AddTorrent(magnetURI, resp)
        IN  /\ remote' = IF Served(resp)
                         THEN ServerAdd(ServerAdd(remote, r.urls[1]), r.urls[2])
                         ELSE remote
            /\ lastCall' = [op |-> "AddTorrent", before |-> client, kind |-> kind,
                            SID |-> client.sessionID, data |-> <<>>,
                            err |-> r.err]
            /\ UNCHANGED <<store, now, added, last, client>>

\* c.DeleteTorrent
DeleteTorrentCall ==
    \E kind \in ClientResponses, hash \in HashArgs, deleteFiles \in BOOLEAN :
        LET resp == HttpResponse(kind)
            r == DeleteTorrent(hash, deleteFiles, resp)
        IN  /\ remote' = IF Served(resp) THEN ServerDelete(remote, r.hashes)
                         ELSE remote
            /\ lastCall' = [op |-> "DeleteTorrent", before |-> client,
                            kind |-> kind, SID |-> client.sessionID,
                            data |-> <<>>, err |-> r.err]
            /\ UNCHANGED <<store, now, added, last, client>>

ClientNext ==
    \/ LoginCall
    \/ GetTorrentsInfoCall
    \/ GetTorrentInfoCall
    \/ AddTorrentCall
    \/ DeleteTorrentCall

ClientSpec == ClientInit /\ [][ClientNext]_vars

----------------------------------------------------------------------------
(* Properties.  A state with last.ran is the state right after a pass: last *)
(* describes that pass, store and remote are what it left behind.           *)

HasTrue(conditions, type) ==
    \E i \in DOMAIN conditions :
        conditions[i].Type = type /\ conditions[i].Status = ConditionTrue

HasType(conditions, type) ==
    \E i \in DOMAIN conditions : conditions[i].Type = type

\* the pass that just ended fetched an object
PassOnObject == last.ran /\ last.fetched # <<>>

\* ... an object carrying the deletion marker
DeletionPass == PassOnObject /\ last.fetched[1].DeletionTimestamp

\* ... an object without deletion marker and without the finalizer
FinalizerPass ==
    /\ PassOnObject
    /\ ~last.fetched[1].DeletionTimestamp
    /\ TorrentFinalizer \notin last.fetched[1].Finalizers

\* ... an object without deletion marker, with the finalizer
SyncPass ==
    /\ PassOnObject
    /\ ~last.fetched[1].DeletionTimestamp
    /\ TorrentFinalizer \in last.fetched[1].Finalizers

\* the object of the pass is still stored
StillStored == last.name \in DOMAIN store

FinalizerStored == StillStored /\ TorrentFinalizer \in store[last.name].Finalizers

\* the pass that just ended took the finalizer off the stored object
FinalizerRemoved ==
    /\ PassOnObject
    /\ TorrentFinalizer \in last.fetched[1].Finalizers
    /\ ~FinalizerStored

\* C1 - Condition exclusivity: the stored condition list of a resource never
\* holds an Available entry with status True together with a Degraded entry
\* with status True, whatever passes ran and whichever of their remote calls
\* and store writes failed.
C1_ConditionExclusivity ==
    \A n \in DOMAIN store :
        ~(/\ HasTrue(store[n].Status.Conditions, TypeAvailableTorrent)
          /\ HasTrue(store[n].Status.Conditions, TypeDegradedTorrent))

\* a pass has just turned a stored Available=True into Degraded=True
C1_Witness ==
    /\ PassOnObject
    /\ StillStored
    /\ HasTrue(last.fetched[1].Status.Conditions, TypeAvailableTorrent)
    /\ HasTrue(store[last.name].Status.Conditions, TypeDegradedTorrent)

\* C2 - The finalizer blocks deletion until the remote torrent is gone:
\* whenever a pass removes the finalizer, the remote service holds no torrent
\* that an earlier pass of that resource added with AddTorrent.
C2_FinalizerBlocksDeletion ==
    FinalizerRemoved => added[last.name] \cap RemoteHashes(remote) = {}

\* C3 - Deletion guard: if DeleteTorrent returns an error in a pass on a
\* resource under deletion, the finalizer the resource carried is still
\* stored after the pass; and a pass removes the finalizer only from a
\* resource under deletion, after a successful DeleteTorrent(status hash,
\* deleteFiles = true) or with an empty status hash and no request at all.
C3_DeletionGuard ==
    /\ (/\ DeletionPass
        /\ TorrentFinalizer \in last.fetched[1].Finalizers
        /\ \E i \in DOMAIN last.calls :
              last.calls[i].op = "DeleteTorrent" /\ last.calls[i].err # "")
       => FinalizerStored
    /\ FinalizerRemoved =>
          /\ last.fetched[1].DeletionTimestamp
          /\ IF last.fetched[1].Status.Hash = <<>>
             THEN last.calls = <<>>
             ELSE last.calls = <<Call("DeleteTorrent", last.fetched[1].Status.Hash,
                                      TRUE, "")>>

\* DeleteTorrent has just failed on a resource under deletion that carries
\* the finalizer and a status hash
C3_Witness ==
    /\ DeletionPass
    /\ TorrentFinalizer \in last.fetched[1].Finalizers
    /\ last.fetched[1].Status.Hash # <<>>
    /\ Len(last.calls) = 1
    /\ last.calls[1].err # ""
    /\ FinalizerStored

\* the hash the pass that just ended derived from the magnet URI it fetched
PassHash == GetTorrentHash(last.fetched[1].Spec.MagnetURI)

\* the record of that hash in the list the pass started from, <<>> if none
PassRecord == SelectSeq(last.remoteBefore, LAMBDA r : r.Hash = PassHash.hash)

\* the only condition of the list is type = True with that reason
OnlyCondition(conditions, type, reason) ==
    /\ Len(conditions) = 1
    /\ conditions[1].Type = type
    /\ conditions[1].Status = ConditionTrue
    /\ conditions[1].Reason = reason

\* the pass made exactly one store write, a status write; if it succeeded the
\* stored status is the one written
OneStatusWrite ==
    /\ Len(last.writes) = 1
    /\ last.writes[1].op = "StatusUpdate"
    /\ StillStored
    /\ store[last.name].Status =
          IF last.writes[1].ok THEN last.writes[1].obj.Status
                               ELSE last.fetched[1].Status

\* C4 - Finalizer before side effects: a pass on a resource without deletion
\* marker and without the finalizer makes no request to the remote service
\* and writes the object with the finalizer added; when that write succeeds
\* the finalizer is stored and the pass returns requeue after 1 second (when
\* it fails the pass returns the store's error and the object is unchanged).
\* AddTorrent is only ever issued by a pass that fetched the finalizer.
C4_FinalizerBeforeSideEffects ==
    /\ FinalizerPass =>
          /\ last.calls = <<>>
          /\ remote = last.remoteBefore
          /\ Len(last.writes) = 1
          /\ last.writes[1].op = "Update"
          /\ last.writes[1].obj =
                [last.fetched[1] EXCEPT !.Finalizers = @ \cup {TorrentFinalizer}]
          /\ StillStored
          /\ IF last.writes[1].ok
             THEN /\ store[last.name] = last.writes[1].obj
                  /\ last.result = Result(1, "")
             ELSE /\ store[last.name] = last.fetched[1]
                  /\ last.result = Result(0, StoreErr)
    /\ (last.ran /\ \E i \in DOMAIN last.calls : last.calls[i].op = "AddTorrent")
          => SyncPass

\* a pass has just stored the finalizer on a fresh resource
C4_Witness ==
    /\ FinalizerPass
    /\ last.writes[1].ok
    /\ FinalizerStored
    /\ last.result.RequeueAfter = 1

\* C5 (as claimed) - Finalizer invariant: no stored resource has a non-empty
\* status hash and no finalizer.
C5_FinalizerInvariant ==
    \A n \in DOMAIN store :
        store[n].Status.Hash # <<>> => TorrentFinalizer \in store[n].Finalizers

\* C5 (amended) - no stored resource without deletion marker has a non-empty
\* status hash and no finalizer; a resource with a status hash and without
\* the finalizer is one under deletion whose finalizer a deletion pass took
\* off.
C5_FinalizerInvariantLive ==
    \A n \in DOMAIN store :
        (store[n].Status.Hash # <<>> /\ ~store[n].DeletionTimestamp)
            => TorrentFinalizer \in store[n].Finalizers

\* a sync pass has just written the status hash of a live resource
C5_Witness ==
    /\ SyncPass
    /\ last.fetched[1].Status.Hash = <<>>
    /\ StillStored
    /\ store[last.name].Status.Hash # <<>>
    /\ ~store[last.name].DeletionTimestamp

\* C6 - Create transition: in a pass on a finalizer-carrying, non-deleting
\* resource with a well-formed magnet URI whose hash is not in the remote
\* list, AddTorrent is called exactly once, after the list request, with the
\* unmodified magnet URI; if it succeeds the pass writes a status whose only
\* condition is Available=True/TorrentAdded (no Degraded entry) and whose
\* observed fields are untouched, that status is stored when the write
\* succeeds, and the pass returns requeue after 5 seconds with no error.
C6_CreateTransition ==
    (/\ SyncPass
     /\ PassHash.err = ""
     /\ last.answers # <<>>
     /\ last.answers[1] = "ok"
     /\ PassRecord = <<>>)
    => /\ Len(last.calls) = 2
       /\ last.calls[1].op = "GetTorrentsInfo"
       /\ last.calls[2].op = "AddTorrent"
       /\ last.calls[2].arg # <<>>
       /\ \A j \in DOMAIN last.calls[2].arg :
             last.calls[2].arg[j] = last.fetched[1].Spec.MagnetURI
       /\ last.answers[2] = "ok" =>
             /\ last.calls[2].err = ""
             /\ OneStatusWrite
             /\ OnlyCondition(last.writes[1].obj.Status.Conditions,
                              TypeAvailableTorrent, "TorrentAdded")
             /\ ObservedFields(last.writes[1].obj.Status)
                   = ObservedFields(last.fetched[1].Status)
             /\ last.result = Result(5, "")

\* AddTorrent has just succeeded for a resource that was Degraded, and the
\* status was stored
C6_Witness ==
    /\ SyncPass
    /\ HasTrue(last.fetched[1].Status.Conditions, TypeDegradedTorrent)
    /\ Len(last.calls) = 2
    /\ last.calls[2].op = "AddTorrent"
    /\ last.calls[2].err = ""
    /\ last.writes[1].ok
    /\ OnlyCondition(store[last.name].Status.Conditions,
                     TypeAvailableTorrent, "TorrentAdded")
    /\ last.result.RequeueAfter = 5

\* C7 - Sync transition: whenever a pass returns requeue after 30 seconds,
\* GetTorrent found the record in that pass and the stored resource has
\* every observed field equal to the remote record, an Available=True
\* condition with reason TorrentActive and no Degraded condition.
C7_SyncTransition ==
    (last.ran /\ last.result.RequeueAfter = 30)
    => /\ SyncPass
       /\ PassRecord # <<>>
       /\ StillStored
       /\ ObservedFields(store[last.name].Status) = InfoFields(PassRecord[1])
       /\ OnlyCondition(store[last.name].Status.Conditions,
                        TypeAvailableTorrent, "TorrentActive")

\* C8 - Failed delete outcome: a pass on a resource under deletion with a
\* non-empty status hash in which DeleteTorrent fails makes that one request
\* (status hash, deleteFiles = true), writes a status whose only condition is
\* Degraded=True/FailedToDeleteTorrent with DeleteTorrent's error as message
\* (no Available entry), leaves the finalizers alone and returns requeue
\* after 10 seconds with no error; the status is stored when the write
\* succeeds.
C8_FailedDelete ==
    (/\ DeletionPass
     /\ last.fetched[1].Status.Hash # <<>>
     /\ last.answers # <<>>
     /\ last.answers[1] # "ok")
    => /\ Len(last.calls) = 1
       /\ last.calls[1].op = "DeleteTorrent"
       /\ last.calls[1].arg = last.fetched[1].Status.Hash
       /\ last.calls[1].deleteFiles
       /\ last.calls[1].err \in
             {"failed to delete torrent: connection refused",
              "unauthorized access to qbittorrent",
              "failed to delete torrent. Status: 500 Internal Server Error"}
       /\ remote = last.remoteBefore
       /\ OneStatusWrite
       /\ OnlyCondition(last.writes[1].obj.Status.Conditions,
                        TypeDegradedTorrent, "FailedToDeleteTorrent")
       /\ last.writes[1].obj.Status.Conditions[1].Message = last.calls[1].err
       /\ ObservedFields(last.writes[1].obj.Status)
             = ObservedFields(last.fetched[1].Status)
       /\ store[last.name].Finalizers = last.fetched[1].Finalizers
       /\ last.result = Result(10, "")

\* DeleteTorrent has just failed for a resource that was Available, and the
\* Degraded status was stored
C8_Witness ==
    /\ DeletionPass
    /\ last.fetched[1].Status.Hash # <<>>
    /\ HasTrue(last.fetched[1].Status.Conditions, TypeAvailableTorrent)
    /\ last.answers = <<"transport">>
    /\ last.writes[1].ok
    /\ OnlyCondition(store[last.name].Status.Conditions,
                     TypeDegradedTorrent, "FailedToDeleteTorrent")
    /\ last.result.RequeueAfter = 10

\* the object the pass fetched is Settled: its observed fields equal the
\* remote record and its only condition is Available=True/TorrentActive
SettledBefore ==
    /\ SyncPass
    /\ PassHash.err = ""
    /\ PassRecord # <<>>
    /\ ObservedFields(last.fetched[1].Status) = InfoFields(PassRecord[1])
    /\ OnlyCondition(last.fetched[1].Status.Conditions,
                     TypeAvailableTorrent, "TorrentActive")

\* C9 - Idempotence: a pass on a Settled resource that finds the unchanged
\* remote record leaves the stored resource exactly as it was, observed
\* fields and condition list (type, status, reason, message,
\* lastTransitionTime) included, and returns requeue after 30 seconds.
C9_Idempotence ==
    (SettledBefore /\ last.answers = <<"ok">>)
    => /\ StillStored
       /\ store[last.name] = last.fetched[1]
       /\ remote = last.remoteBefore
       /\ last.result = Result(30, "")

\* a Settled resource has just been reconciled again, at a later time than
\* the one its condition carries, and the status write went through
C9_Witness ==
    /\ SettledBefore
    /\ last.answers = <<"ok">>
    /\ last.fetched[1].Status.Conditions[1].LastTransitionTime < now
    /\ Len(last.writes) = 1
    /\ last.writes[1].ok

\* C10 - Remote-call failures are non-fatal: in a sync pass an error from
\* GetTorrent yields Degraded=True/FailedToGetTorrentInfo and no AddTorrent;
\* an error from AddTorrent yields Degraded=True/FailedToAddTorrent and no
\* second AddTorrent.  In both cases the message is the error, no Available
\* entry stays, the status is written (and stored when the write succeeds),
\* and the pass returns requeue after 10 seconds with no error.
C10_RemoteFailuresNonFatal ==
    (SyncPass /\ PassHash.err = "" /\ last.answers # <<>>)
    => /\ last.answers[1] # "ok" =>
             /\ Len(last.calls) = 1
             /\ last.calls[1].op = "GetTorrentsInfo"
             /\ last.calls[1].err # ""
             /\ remote = last.remoteBefore
             /\ OneStatusWrite
             /\ OnlyCondition(last.writes[1].obj.Status.Conditions,
                              TypeDegradedTorrent, "FailedToGetTorrentInfo")
             /\ last.writes[1].obj.Status.Conditions[1].Message = last.calls[1].err
             /\ last.result = Result(10, "")
       /\ (Len(last.answers) = 2 /\ last.answers[2] # "ok") =>
             /\ Len(last.calls) = 2
             /\ last.calls[1].op = "GetTorrentsInfo"
             /\ last.calls[2].op = "AddTorrent"
             /\ last.calls[2].err # ""
             /\ remote = last.remoteBefore
             /\ OneStatusWrite
             /\ OnlyCondition(last.writes[1].obj.Status.Conditions,
                              TypeDegradedTorrent, "FailedToAddTorrent")
             /\ last.writes[1].obj.Status.Conditions[1].Message = last.calls[2].err
             /\ last.result = Result(10, "")

\* the list request has just failed for a resource that was Available, and
\* the Degraded status was stored
C10_Witness ==
    /\ SyncPass
    /\ HasTrue(last.fetched[1].Status.Conditions, TypeAvailableTorrent)
    /\ Len(last.answers) = 1
    /\ last.answers[1] # "ok"
    /\ last.writes[1].ok
    /\ OnlyCondition(store[last.name].Status.Conditions,
                     TypeDegradedTorrent, "FailedToGetTorrentInfo")
    /\ last.result = Result(10, "")

\* C11 - Persistence errors are hard failures: in every pass, if a store
\* write (the finalizer Update or a status Update, on any path) fails, the
\* pass returns that error to the caller and no requeue delay.
C11_PersistenceErrorsFatal ==
    last.ran =>
        \A i \in DOMAIN last.writes :
            ~last.writes[i].ok => last.result = Result(0, StoreErr)

\* C12 - Malformed magnet URI is fatal to the pass: a pass on a resource
\* without deletion marker, with the finalizer, whose magnet URI makes
\* GetTorrentHash fail returns that error with no requeue delay, makes no
\* request to the service and no store write; the stored resource and the
\* remote list are as before the pass.
C12_MalformedMagnetFatal ==
    (SyncPass /\ PassHash.err # "")
    => /\ last.result = Result(0, PassHash.err)
       /\ last.calls = <<>>
       /\ last.writes = <<>>
       /\ StillStored
       /\ store[last.name] = last.fetched[1]
       /\ remote = last.remoteBefore

\* a pass has just ended on a finalizer-carrying resource whose magnet URI
\* has no info-hash marker
C12_Witness ==
    /\ SyncPass
    /\ PassHash.err = "'btih:' not found"
    /\ last.result.err = "'btih:' not found"

\* C13 - Absent resource: when r.Get reports the requested resource as not
\* found, the pass ends with no error and no requeue delay, makes no request
\* to the service and no store write, and leaves store and remote list as
\* they were; when r.Get fails otherwise, the pass returns that error (and
\* likewise does nothing else).
C13_AbsentResource ==
    (last.ran /\ last.fetched = <<>>)
    => /\ last.calls = <<>>
       /\ last.writes = <<>>
       /\ remote = last.remoteBefore
       /\ last.result = Result(0, IF last.fetchErr THEN GetErr ELSE "")
       /\ ~last.fetchErr => last.name \notin DOMAIN store

\* a pass has just run for a resource that is no longer in the store while
\* the torrent it added is still on the service
C13_Witness ==
    /\ last.ran
    /\ ~last.fetchErr
    /\ last.fetched = <<>>
    /\ last.name \notin DOMAIN store
    /\ added[last.name] # {}
    /\ last.result = Result(0, "")

\* the resource is stored under deletion with the finalizer and a status hash
DeletionPending(n) ==
    /\ n \in DOMAIN store
    /\ store[n].DeletionTimestamp
    /\ TorrentFinalizer \in store[n].Finalizers
    /\ store[n].Status.Hash # <<>>

\* the finalizer is off the resource, or the resource is gone
FinalizerGone(n) ==
    n \in DOMAIN store => TorrentFinalizer \notin store[n].Finalizers

\* C14 - Deletion liveness: every pass on a resource under deletion with a
\* non-empty status hash attempts DeleteTorrent(status hash, true), whatever
\* earlier attempts returned; the pass that removes the finalizer returns no
\* requeue delay and no error; and, passes in which the service and the store
\* succeed recurring, a resource under deletion with the finalizer and a
\* status hash eventually loses the finalizer.
C14_DeletionLiveness ==
    /\ []((DeletionPass /\ last.fetched[1].Status.Hash # <<>>)
            => /\ Len(last.calls) = 1
               /\ last.calls[1].op = "DeleteTorrent"
               /\ last.calls[1].arg = last.fetched[1].Status.Hash
               /\ last.calls[1].deleteFiles)
    /\ [](FinalizerRemoved => last.result = Result(0, ""))
    /\ \A n \in Names : DeletionPending(n) ~> FinalizerGone(n)

\* the finalizer has just been removed by a pass that followed a pass whose
\* DeleteTorrent failed (the stored condition is still Degraded)
C14_Witness ==
    /\ DeletionPass
    /\ last.fetched[1].Status.Hash # <<>>
    /\ HasTrue(last.fetched[1].Status.Conditions, TypeDegradedTorrent)
    /\ last.fetched[1].Status.Conditions[1].Reason = "FailedToDeleteTorrent"
    /\ FinalizerRemoved
    /\ last.result = Result(0, "")

\* the resource is stored without deletion marker
Live(n) == n \in DOMAIN store /\ ~store[n].DeletionTimestamp

\* the resource is stored as Available=True/TorrentActive with the hash of
\* its magnet URI in the status
Active(n) ==
    /\ n \in DOMAIN store
    /\ OnlyCondition(store[n].Status.Conditions, TypeAvailableTorrent,
                     "TorrentActive")
    /\ store[n].Status.Hash = GetTorrentHash(store[n].Spec.MagnetURI).hash

\* C15 - Creation liveness: passes in which the service and the store
\* succeed recurring, a newly created resource with a well-formed magnet URI
\* that is never marked for deletion eventually is Available=True with reason
\* TorrentActive and carries the hash of its magnet URI in the status; and no
\* pass that starts with the torrent of that hash in the remote list issues
\* AddTorrent.
C15_CreationLiveness ==
    /\ []((PassOnObject /\ PassHash.err = "" /\ PassRecord # <<>>)
            => \A i \in DOMAIN last.calls : last.calls[i].op # "AddTorrent")
    /\ \A n \in Names :
          (/\ Live(n)
           /\ GetTorrentHash(store[n].Spec.MagnetURI).err = ""
           /\ store[n].Status = ZeroStatus
           /\ []Live(n))
          => <>Active(n)

\* a resource whose torrent this controller added to the service has just
\* been found in the list and stored as active
C15_Witness ==
    /\ SyncPass
    /\ PassHash.hash \in added[last.name]
    /\ PassRecord # <<>>
    /\ last.fetched[1].Status.Hash = <<>>
    /\ last.calls = <<Call("GetTorrentsInfo", <<>>, FALSE, "")>>
    /\ Active(last.name)

\* GetTorrentHash has returned from a call on a string of that form
Extracted(form) ==
    /\ lastCall.op = "GetTorrentHash"
    /\ lastCall.returned
    /\ lastCall.form = form

\* the 0-based places at which the marker occurs in s
MarkerAt(s) == {i \in 0..(Len(s) - Len(Marker)) : SubSeq(s, i + 1, i + Len(Marker)) = Marker}

\* s holds the delimiter
HasDelimiter(s) == \E i \in DOMAIN s : s[i] = "&"

\* C16 (as claimed) - Hash extraction result: for any strings prefix, H and
\* suffix, GetTorrentHash(prefix "btih:" H "&" suffix) returns exactly H with
\* no error, and GetTorrentHash(prefix "btih:" H) returns H with no error,
\* also when prefix holds "btih:" and when H holds "&" or is empty.
C16_HashExtraction ==
    (Extracted("delimited") \/ Extracted("open"))
    => lastCall.out = [hash |-> lastCall.H, err |-> ""]

\* C16 (amended) - Hash extraction result: when prefix holds no "btih:" and H
\* holds no "&", GetTorrentHash(prefix "btih:" H "&" suffix) returns exactly
\* H with no error (H may be empty), and, H being non-empty,
\* GetTorrentHash(prefix "btih:" H) returns H with no error.
C16_HashExtractionFirstMarker ==
    (/\ Extracted("delimited") \/ (Extracted("open") /\ lastCall.H # <<>>)
     /\ MarkerAt(lastCall.prefix) = {}
     /\ ~HasDelimiter(lastCall.H))
    => lastCall.out = [hash |-> lastCall.H, err |-> ""]

\* GetTorrentHash has returned the hash of a string with a non-empty part
\* before the marker, a non-empty hash and further parameters after it
C16_Witness ==
    /\ Extracted("delimited")
    /\ lastCall.prefix # <<>>
    /\ MarkerAt(lastCall.prefix) = {}
    /\ lastCall.H # <<>>
    /\ ~HasDelimiter(lastCall.H)
    /\ HasDelimiter(lastCall.suffix)
    /\ lastCall.out = [hash |-> lastCall.H, err |-> ""]

\* the least member of a non-empty set of numbers
Least(S) == CHOOSE i \in S : \A j \in S : i <= j

\* s holds no marker, or its first marker is the end of s
NoHashIn(s) ==
    \/ MarkerAt(s) = {}
    \/ Least(MarkerAt(s)) + Len(Marker) = Len(s)

\* C17 - Hash extraction failure: GetTorrentHash returns an error exactly
\* when its argument holds no "btih:" or the first "btih:" is the end of the
\* argument, and the hash it returns with an error is empty; on every other
\* argument it returns without error; and a second call on the same argument
\* returns the same.
C17_HashExtractionFailure ==
    (lastCall.op = "GetTorrentHash" /\ lastCall.returned)
    => /\ lastCall.out.err # "" <=> NoHashIn(lastCall.magnetURI)
       /\ lastCall.out.err # "" => lastCall.out.hash = <<>>
       /\ lastCall.again = lastCall.out

\* GetTorrentHash has returned an error for a string whose first marker is
\* its end and which holds a delimiter before it
C17_Witness ==
    /\ lastCall.op = "GetTorrentHash"
    /\ lastCall.returned
    /\ MarkerAt(lastCall.magnetURI) # {}
    /\ HasDelimiter(lastCall.magnetURI)
    /\ NoHashIn(lastCall.magnetURI)
    /\ lastCall.out = [hash |-> <<>>, err |-> "no hash after 'btih:'"]

\* the cookies named SID of a response, in order
SIDCookies(cookies) == SelectSeq(cookies, LAMBDA k : k.Name = "SID")

\* the response to the Login just made was 200 and carried a cookie named SID
LoginAccepted ==
    /\ lastCall.kind = "ok"
    /\ SIDCookies(lastCall.cookies) # <<>>

\* C18 - Login outcome: whatever session ID the client held before, Login
\* returns without error only if the request went through, the response was
\* 200 and carried a cookie named SID, and then the session ID of the client
\* is the value of that cookie; it returns an error when the transport
\* fails, when the status is not 200 and when the 200 response carries no
\* cookie named SID.
C18_LoginOutcome ==
    lastCall.op = "Login"
    => /\ lastCall.err = "" =>
             /\ LoginAccepted
             /\ client.sessionID = SIDCookies(lastCall.cookies)[1].Value
       /\ ~LoginAccepted => lastCall.err # ""

\* C19 - Authenticated-call error classification: GetTorrentsInfo,
\* AddTorrent and DeleteTorrent return without error only on a 200 response
\* (whose body decodes, for GetTorrentsInfo); a 401 response yields the
\* unauthorized error, which no other status, no undecodable body and no
\* transport failure yields; an undecodable list yields a parse error, a
\* transport failure an error that wraps the transport's; and no call returns
\* data together with an error.
C19_ErrorClassification ==
    lastCall.op \in {"GetTorrentsInfo", "AddTorrent", "DeleteTorrent"}
    => /\ lastCall.err = "" <=> lastCall.kind = "ok"
       /\ lastCall.err = "unauthorized access to qbittorrent"
             <=> lastCall.kind = "unauthorized"
       /\ lastCall.kind = "badjson" =>
             lastCall.err = "failed to parse torrents info list: invalid character"
       /\ lastCall.kind = "transport" =>
             lastCall.err \in
                {"failed to get torrents info list: connection refused",
                 "failed to add torrent: connection refused",
                 "failed to delete torrent: connection refused"}
       /\ lastCall.kind \in {"forbidden", "error"} =>
             lastCall.err \in
                {"failed to get torrents info list. Status: " \o HttpResponse(lastCall.kind).Status,
                 "failed to add torrent. Status: " \o HttpResponse(lastCall.kind).Status,
                 "failed to delete torrent. Status: " \o HttpResponse(lastCall.kind).Status}
       /\ lastCall.err # "" => lastCall.data = <<>>

\* a logged-in client has just had 401 for DeleteTorrent, and the service
\* has kept its list
C19_Witness ==
    /\ lastCall.op = "DeleteTorrent"
    /\ lastCall.SID # ""
    /\ lastCall.kind = "unauthorized"
    /\ lastCall.err = "unauthorized access to qbittorrent"
    /\ remote # <<>>

\* the records of that hash in the list the service returned
Matches == SelectSeq(lastCall.listed, LAMBDA r : r.Hash = lastCall.hash)

\* C20 - GetTorrent lookup: GetTorrentInfo(hash) returns an error, and no
\* record, exactly when the list request failed; it returns neither record
\* nor error exactly when the list request succeeded and no listed record
\* has exactly that hash; otherwise it returns the first listed record with
\* that hash.
C20_GetTorrentLookup ==
    lastCall.op = "GetTorrentInfo"
    => /\ lastCall.err # "" <=> lastCall.kind # "ok"
       /\ lastCall.err # "" => lastCall.data = <<>>
       /\ (lastCall.err = "" /\ lastCall.data = <<>>)
             <=> (lastCall.kind = "ok" /\ Matches = <<>>)
       /\ (lastCall.kind = "ok" /\ Matches # <<>>) => lastCall.data = <<Matches[1]>>

\* GetTorrentInfo has just returned the first of two different listed
\* records of the hash asked for
C20_Witness ==
    /\ lastCall.op = "GetTorrentInfo"
    /\ Len(Matches) = 2
    /\ Matches[1] # Matches[2]
    /\ lastCall.data = <<Matches[1]>>

\* s without its last character when that is "/", s otherwise
WithoutOneSlash(s) ==
    IF s # <<>> /\ s[Len(s)] = "/" THEN [i \in 1..(Len(s) - 1) |-> s[i]] ELSE s

\* C22 - Client construction: NewClient(baseURL) returns a client whose base
\* address is baseURL without one trailing "/" (baseURL itself when it has
\* none), with an HTTP transport whose timeout is 5 seconds and with an empty
\* session ID; and the session ID of a client goes from empty to non-empty
\* only in a Login that returns no error.
C22_ClientConstruction ==
    /\ [](lastCall.op = "NewClient"
            => /\ client.baseURL = WithoutOneSlash(lastCall.baseURL)
               /\ client.httpClient = [Timeout |-> 5]
               /\ client.sessionID = "")
    /\ [][(client.sessionID = "" /\ client'.sessionID # "")
            => (lastCall'.op = "Login" /\ lastCall'.err = "")]_vars

\* a client has just been made for an address that ends in two slashes, one
\* of which it kept
C22_Witness ==
    /\ lastCall.op = "NewClient"
    /\ lastCall.baseURL = <<"q", "b", "/", "/">>
    /\ client.baseURL = <<"q", "b", "/">>
    /\ client.sessionID = ""

\* C29 - Non-empty hash on success: on every argument GetTorrentHash returns
\* an error or a non-empty hash; a "btih:" that is followed at once by "&"
\* does not give an empty hash without error.
C29_NonEmptyHash ==
    (lastCall.op = "GetTorrentHash" /\ lastCall.returned)
    => (lastCall.out.err # "" \/ lastCall.out.hash # <<>>)

\* the hash is empty or the one GetTorrentHash returns for the magnet URI
HashOf(torrent) ==
    \/ torrent.Status.Hash = <<>>
    \/ torrent.Status.Hash = GetTorrentHash(torrent.Spec.MagnetURI).hash

\* C27 - Hash provenance: the magnet URI of a resource staying as created,
\* the status hash of every stored resource is empty or equal to what
\* GetTorrentHash returns for its magnet URI, and no status write of a pass
\* carries another hash.
C27_HashProvenance ==
    /\ \A n \in DOMAIN store : HashOf(store[n])
    /\ last.ran => \A i \in DOMAIN last.writes : HashOf(last.writes[i].obj)

\* a pass has just stored the hash of a torrent it found in a list that
\* holds torrents of other hashes too
C27_Witness ==
    /\ SyncPass
    /\ StillStored
    /\ last.fetched[1].Status.Hash = <<>>
    /\ store[last.name].Status.Hash = PassHash.hash
    /\ PassHash.hash # <<>>
    /\ RemoteHashes(last.remoteBefore) \ {PassHash.hash} # {}

\* the list holds at most one entry, and none that is not True
WellShaped(conditions) ==
    /\ Len(conditions) <= 1
    /\ \A i \in DOMAIN conditions : conditions[i].Status = ConditionTrue

\* the pass that just ended called setAvailableCondition or
\* setDegradedCondition: these are the passes that return a delay of 5, 10 or
\* 30 seconds
SetCondition == last.ran /\ last.result.RequeueAfter \in {5, 10, 30}

\* C28 - Condition list shape: the condition list of every stored resource
\* (they start empty) and of every status write holds at most one entry,
\* never one turned to False (setting one type removes the entry of the
\* other); a pass that set a condition ends with a status write whose list
\* holds exactly one entry, and that list is the stored one when the write
\* succeeds.
C28_ConditionListShape ==
    /\ \A n \in DOMAIN store : WellShaped(store[n].Status.Conditions)
    /\ last.ran =>
          \A i \in DOMAIN last.writes :
              WellShaped(last.writes[i].obj.Status.Conditions)
    /\ SetCondition =>
          LET w == last.writes[Len(last.writes)]
          IN  /\ w.op = "StatusUpdate"
              /\ Len(w.obj.Status.Conditions) = 1
              /\ w.ok => /\ StillStored
                         /\ store[last.name].Status.Conditions
                               = w.obj.Status.Conditions

\* a pass has just replaced a stored Degraded entry by an Available entry
C28_Witness ==
    /\ SetCondition
    /\ StillStored
    /\ OnlyCondition(last.fetched[1].Status.Conditions, TypeDegradedTorrent,
                     "FailedToGetTorrentInfo")
    /\ Len(store[last.name].Status.Conditions) = 1
    /\ store[last.name].Status.Conditions[1].Type = TypeAvailableTorrent

\* the write records the result of the request: its error in the message of
\* Degraded = True; an accepted AddTorrent as Available = True, TorrentAdded;
\* a list holding the torrent as the observed fields of its record
Records(write, c) ==
    LET status == write.obj.Status
    IN  IF c.err # ""
        THEN \E i \in DOMAIN status.Conditions :
                /\ status.Conditions[i].Type = TypeDegradedTorrent
                /\ status.Conditions[i].Status = ConditionTrue
                /\ status.Conditions[i].Message = c.err
        ELSE IF c.op = "AddTorrent"
        THEN OnlyCondition(status.Conditions, TypeAvailableTorrent, "TorrentAdded")
        ELSE /\ c.op = "GetTorrentsInfo"
             /\ PassRecord # <<>>
             /\ ObservedFields(status) = InfoFields(PassRecord[1])

\* C25 - Write-after-call ordering: every status write of a pass is made
\* after at least one request of the same pass to the service has returned,
\* and records the result of the last request returned by then; a pass that
\* makes no request makes no status write.
C25_WriteAfterCall ==
    last.ran =>
        \A i \in DOMAIN last.writes :
            last.writes[i].op = "StatusUpdate" =>
                /\ last.calls # <<>>
                /\ last.writes[i].after >= 1
                /\ last.writes[i].after <= Len(last.calls)
                /\ Records(last.writes[i], last.calls[last.writes[i].after])

\* a pass has listed the torrents and then written the status twice
C25_Witness ==
    /\ SyncPass
    /\ Len(last.calls) = 1
    /\ Len(last.writes) = 2
    /\ \A i \in {1, 2} : /\ last.writes[i].op = "StatusUpdate"
                         /\ last.writes[i].after = 1

\* the request that failed in the pass that just ended
FailedCall == last.calls[Len(last.calls)]

\* the pass that ends now is made again, nothing in between, on the object of
\* the pass that just ended, and gets to the request that failed: the
\* requests before it are answered
SamePassAgain ==
    /\ last.streak >= 1
    /\ last'.ran
    /\ last'.name = last.name
    /\ last'.fetched # <<>>
    /\ \A i \in 1..(Len(last.calls) - 1) :
          i \in DOMAIN last'.answers /\ last'.answers[i] = "ok"

\* C24 - Unbounded fixed-delay retry: a pass whose request to the service
\* failed returns a requeue delay of exactly 10 seconds and no error, however
\* many passes before it failed on the same request (one, two, ...,
\* MaxStreak or more); and the pass made next on the same resource issues
\* the same request again.
C24_FixedDelayRetry ==
    /\ [](last.streak >= 1 => last.result = Result(10, ""))
    /\ [][SamePassAgain =>
             /\ Len(last'.calls) >= Len(last.calls)
             /\ last'.calls[Len(last.calls)].op = FailedCall.op
             /\ last'.calls[Len(last.calls)].arg = FailedCall.arg]_vars

\* MaxStreak passes in a row have failed on AddTorrent
C24_Witness ==
    /\ last.streak = MaxStreak
    /\ FailedCall.op = "AddTorrent"
    /\ last.result = Result(10, "")

\* the conditions without their timestamps
Timeless(conditions) ==
    [i \in DOMAIN conditions |-> [conditions[i] EXCEPT !.LastTransitionTime = 0]]

\* the stored object, <<>> when there is none, without the timestamps
TimelessObject(stored) ==
    IF stored = <<>> THEN <<>>
    ELSE <<[stored[1] EXCEPT !.Status.Conditions = Timeless(@)]>>

\* the responses the pass that ends now has got: the result of r.Get, the
\* answers to its requests, the outcomes of its writes.  A response the pass
\* did not wait for is filled in with a failure.
ResponsesOfPass ==
    Env(last'.fetchErr,
        IF Len(last'.answers) >= 1 THEN last'.answers[1] ELSE "transport",
        IF Len(last'.answers) >= 2 THEN last'.answers[2] ELSE "transport",
        IF Len(last'.writes) >= 1 THEN last'.writes[1].ok ELSE FALSE,
        IF Len(last'.writes) >= 2 THEN last'.writes[2].ok ELSE FALSE)

C23_Cancellation ==
    (last.ran /\ last.cancelAt >= 1)
    => /\ Len(last.calls) = last.cancelAt
       /\ last.calls[last.cancelAt].err # ""
       /\ \A i \in DOMAIN last.writes :
             last.writes[i].op = "StatusUpdate" =>
                 last.writes[i].after < last.cancelAt

----------------------------------------------------------------------------
(* Two resources that ask for the same torrent *)

SharedNames == {"t1", "t2"}

\* "?xt=btih:B&dn=x": the hash of MagnetB in another URI
MagnetBNamed == MagnetB \o <<"&", "d", "n", "=", "x">>

\* two resources have been created, with different magnet URIs of one hash;
\* the service does not hold the torrent yet
SharedInit ==
    /\ store = [n \in SharedNames |->
                   NewTorrent(IF n = "t1" THEN MagnetB ELSE MagnetBNamed, {})]
    /\ remote = <<ForeignTorrent>>
    /\ now = 0
    /\ added = [n \in SharedNames |-> {}]
    /\ last = NoPass
    /\ client = NewClient(BaseURL)
    /\ lastCall = NoCall

\* one pass on n: r.Get and the store writes succeed, the service answers
\* each request or fails with status 500
SharedPass(n) ==
    \E r1 \in Answers(n, Env(FALSE, "ok", "ok", TRUE, TRUE), 1) \cap {"ok", "error"} :
    \E r2 \in Answers(n, Env(FALSE, r1, "ok", TRUE, TRUE), 2) \cap {"ok", "error"} :
        Run(n, Env(FALSE, r1, r2, TRUE, TRUE))

SharedNext ==
    \/ \E n \in SharedNames : SharedPass(n)
    \/ \E n \in SharedNames : UserDelete(n)

SharedSpec == SharedInit /\ [][SharedNext]_vars

\* C30 - Shared torrent under interleaved passes: a pass on a resource under
\* deletion issues no DeleteTorrent for a hash that another stored resource
\* without deletion marker carries as its status hash.
C30_SharedTorrent ==
    DeletionPass =>
        \A i \in DOMAIN last.calls :
            last.calls[i].op = "DeleteTorrent" =>
                \A m \in DOMAIN store \ {last.name} :
                    ~(Live(m) /\ store[m].Status.Hash = last.calls[i].arg)

\* the delays a pass asks for, in seconds
RequeueDelays == {1, 5, 10, 30}

\* a pass on a stored resource without deletion marker that returns no error
\* asks for another pass after 1, 5, 10 or 30 seconds
PollingGoesOn ==
    (PassOnObject /\ ~last.fetched[1].DeletionTimestamp /\ last.result.err = "")
    => last.result.RequeueAfter \in RequeueDelays

\* C31 - Polling never stops silently: every pass on a stored resource
\* without deletion marker that returns no error returns a requeue delay of
\* 1, 5, 10 or 30 seconds; and a pass returns neither error nor requeue delay
\* only when there is no such resource or when the pass, on the deletion
\* path, has just taken the finalizer off the resource.
C31_PollingNeverStops ==
    /\ PollingGoesOn
    /\ (last.ran /\ last.result = Result(0, ""))
       => \/ last.fetched = <<>>
          \/ DeletionPass /\ FinalizerRemoved

\* C31, with the deletion path as the code has it: a pass returns neither
\* error nor requeue delay only when there is no such resource or when the
\* pass, on the deletion path, has made its Update with the finalizer off
\* the list and the Update succeeded, whether or not the resource carried the
\* finalizer before; the resource is then gone or stored without it.
C31_PollingStopsOnDeletionOnly ==
    /\ PollingGoesOn
    /\ (last.ran /\ last.result = Result(0, ""))
       => \/ last.fetched = <<>>
          \/ /\ DeletionPass
             /\ last.writes # <<>>
             /\ last.writes[Len(last.writes)].op = "Update"
             /\ last.writes[Len(last.writes)].ok
             /\ TorrentFinalizer
                   \notin last.writes[Len(last.writes)].obj.Finalizers
             /\ ~FinalizerStored

\* a pass on a resource under deletion that did not carry the finalizer has
\* returned neither error nor requeue delay
C31_Witness ==
    /\ DeletionPass
    /\ TorrentFinalizer \notin last.fetched[1].Finalizers
    /\ StillStored
    /\ last.result = Result(0, "")

\* the object without its condition list: the observed fields, the magnet
\* URI, the finalizers and the deletion marker
Frame(obj) == [obj EXCEPT !.Status.Conditions = <<>>]

\* the pass that just ended is one that ends Degraded (its last request
\* failed) or Available / TorrentAdded (its AddTorrent was accepted)
EndsDegradedOrAdded ==
    /\ PassOnObject
    /\ last.calls # <<>>
    /\ \/ last.calls[Len(last.calls)].err # ""
       \/ last.calls[Len(last.calls)].op = "AddTorrent"

\* C32 - Failure leaves observed fields untouched: a pass whose GetTorrentInfo,
\* AddTorrent or DeleteTorrent failed, and a pass whose AddTorrent was
\* accepted, makes one status write that differs from the fetched object in
\* the condition list only, and the stored object differs from the fetched
\* one in the condition list only: hash, name, state, totalSize, contentPath,
\* addedOn, timeActive, amountLeft, magnet URI, finalizers and deletion
\* marker are as before.
C32_FailureFrame ==
    EndsDegradedOrAdded
    => /\ OneStatusWrite
       /\ Frame(last.writes[1].obj) = Frame(last.fetched[1])
       /\ Frame(store[last.name]) = Frame(last.fetched[1])

\* the list request has just failed for a resource whose status held the
\* fields of a remote record, and the Degraded condition replaced the stored
\* Available one
C32_Witness ==
    /\ SyncPass
    /\ Len(last.calls) = 1
    /\ last.calls[1].err # ""
    /\ last.fetched[1].Status.Hash # <<>>
    /\ last.fetched[1].Status.State # ""
    /\ HasTrue(last.fetched[1].Status.Conditions, TypeAvailableTorrent)
    /\ StillStored
    /\ HasTrue(store[last.name].Status.Conditions, TypeDegradedTorrent)

\* the Login call that was just made failed in the transport or got a
\* response whose status is not 200
LoginRefused ==
    /\ lastCall.op = "Login"
    /\ \/ HttpResponse(lastCall.kind).err # ""
       \/ HttpResponse(lastCall.kind).StatusCode # 200

\* C33 - Failed login keeps the session: a Login call that fails in the
\* transport or gets a response with a status other than 200 returns an error
\* and leaves the client, its session ID included, exactly as it was before
\* the call.
C33_FailedLoginKeepsSession ==
    LoginRefused
    => /\ lastCall.err # ""
       /\ client.sessionID = lastCall.before.sessionID
       /\ client = lastCall.before

\* a client that held a session ID has been refused with a status other than
\* 200 and still holds that session ID
C33_Witness ==
    /\ LoginRefused
    /\ HttpResponse(lastCall.kind).err = ""
    /\ lastCall.before.sessionID # ""
    /\ client.sessionID = lastCall.before.sessionID

\* C34 - Deletion takes precedence: a pass on a resource carrying the
\* deletion marker makes no request but, at most, one DeleteTorrent with the
\* status hash it fetched and deleteFiles = true (so no GetTorrentsInfo and no
\* AddTorrent); it writes no object with a finalizer the fetched one did not
\* carry and leaves none stored; and it does not return the error of
\* GetTorrentHash, which it never calls: all this with or without the
\* finalizer, with a well-formed or malformed magnet URI.
C34_DeletionPrecedence ==
    DeletionPass
    => /\ \/ last.calls = <<>>
          \/ /\ Len(last.calls) = 1
             /\ last.calls[1].op = "DeleteTorrent"
             /\ last.calls[1].arg = last.fetched[1].Status.Hash
             /\ last.calls[1].deleteFiles = TRUE
       /\ \A i \in DOMAIN last.writes :
             last.writes[i].obj.Finalizers \subseteq last.fetched[1].Finalizers
       /\ StillStored =>
             store[last.name].Finalizers \subseteq last.fetched[1].Finalizers
       /\ PassHash.err # "" => last.result.err # PassHash.err

\* a pass on a resource under deletion whose magnet URI is malformed has
\* taken the finalizer off without a request and without an error
C34_Witness ==
    /\ DeletionPass
    /\ PassHash.err # ""
    /\ TorrentFinalizer \in last.fetched[1].Finalizers
    /\ last.calls = <<>>
    /\ ~FinalizerStored
    /\ last.result = Result(0, "")

====
